---------------------------- MODULE Spec2Model ----------------------------
(***************************************************************************)
(* SNOT signal-processing core: ModuleGraph (topology, per-block routing), *)
(* AudioNode bypass guards, MacroEngine and ModulationMatrix.              *)
(*                                                                         *)
(* Audio samples and parameter values are fixed-point integers: one audio  *)
(* block is one integer sample, a float is counted in units of 1/FloatOne  *)
(* (FloatOne is 1.0f).                                                     *)
(***************************************************************************)
EXTENDS Integers, Sequences, FiniteSets, TLC

VARIABLES
    \* ---- ModuleGraph (part_002:263-273) ----
    nodes,          \* std::map<int, unique_ptr<AudioNode>>: id -> [type, enabled]
    nodeBuffers,    \* std::map<int, AudioBuffer>: ids whose scratch buffer prepare() sized
    connections,    \* std::vector<NodeConnection>
    sortedNodeIds,  \* std::vector<int>, the cached order
    nextNodeId,     \* int
    \* ---- one AudioNode object on its own, and the parameter store it reads ----
    solo,           \* [type, enabled, touched]
    paramOff,       \* node types whose <node>_enabled parameter is below 0.5
    \* ---- observation of the last processGraph / process call ----
    run,            \* [valid, in, out, handed, finalBuf, ...] of the last block
    fault,          \* "none", or why a processGraph call had undefined behaviour
    \* ---- parameter store, MacroEngine (part_000:158-164) ----
    apvts,          \* AudioProcessorValueTreeState: parameter id -> real value
    lastMacroValue, \* float [NUM_MACROS]
    slots,          \* MacroSlot [NUM_MACROS]: the mappings of each macro
    \* ---- ModulationMatrix (part_000:303-304) ----
    sources,        \* std::vector<ModSource>
    routes,         \* std::vector<ModRoute>
    \* ---- the audio thread and the control thread, statement by statement ----
    audio,          \* [pc, i]: where ModulationMatrix::process stands
    ctl,            \* the mutation the control thread has in progress, under the lock
    editing,        \* how far a structural edit of the graph has got
    \* ---- state saved by toValueTree (PluginEditor.cpp:661-662) ----
    saved,          \* [kind, tree, of]: the tree and the object it was taken of
    slotMeta,       \* MacroSlot [NUM_MACROS]: name and colour of each macro
    \* ---- one FreezeCapture node (part_003:303-305), one channel ----
    capture,        \* [captureBuf, writePos, readPos]
    \* ---- one MutationEngine node (part_003:372) ----
    mutation,       \* [samplesUntilMutation, rounds]
    \* ---- one PitchSmearDelay node (part_003:87-91), one channel ----
    delay,          \* [bufLen, writePos, smearPhase, sampleRate]
    \* ---- one SpectralWarpChorus node (part_001:549-552), one channel ----
    chorus,         \* [inFifo, fifoIndex]
    \* ---- the shimmer buffer of one PortalReverb node (part_001:345-347) ----
    reverb,         \* [shimmerLen, shimmerReadPos, shimmerWritePos]
    \* ---- a second ModuleGraph, the argument of morphTo ----
    targetGraph,    \* [nodes, nodeBuffers, connections, sortedNodeIds, nextNodeId]
    \* ---- what addNode has returned since the graph was constructed ----
    issued,         \* sequence of [id, type]
    \* ---- PresetManager (PresetManager.h:306-308) ----
    presetManager,  \* [allPresets, currentIndex]
    userPresetsDir  \* preset name -> the JSON in the file <name>.snot

graphVars == <<nodes, nodeBuffers, connections, sortedNodeIds, nextNodeId>>
audioVars == <<solo, paramOff, run, fault>>
controlVars == <<apvts, lastMacroValue, slots, sources, routes>>
threadVars == <<audio, ctl, editing>>
presetVars == <<presetManager, userPresetsDir>>
lateVars == <<issued, presetVars>>
moreVars == <<chorus, reverb, targetGraph, lateVars>>
nodeVars == <<capture, mutation, delay, moreVars>>
restVars == <<threadVars, saved, slotMeta, nodeVars>>

vars == <<graphVars, audioVars, controlVars, restVars>>

---------------------------------------------------------------------------
(* Bounds of the exploration *)

MaxNodes == 3        \* node ids in play: default nodes 0..MaxNodes-2 and one added node
MaxConns == 2        \* length of the connection vector

InitKeep == MaxNodes - 1             \* default nodes present in the initial state
MaxNewNodes == MaxNodes - InitKeep   \* addNode calls after construction

---------------------------------------------------------------------------
(* Node types, in the order buildDefaultGraph adds them *)

DefaultTypes ==
    << "gravity_filter", "spectral_warp_chorus", "pitch_smear_delay",
       "portal_reverb", "plasma_distortion", "stereo_neural_motion",
       "harmonic_808_inflator", "texture_generator", "freeze_capture",
       "mutation_engine" >>

NodeTypes == { DefaultTypes[i] : i \in DOMAIN DefaultTypes }

\* A node as the graph sees it: its type and enabled { true } (part_001:58).
NewNode(type) == [type |-> type, enabled |-> TRUE]

\* A node object on its own: touched says that process() has run its DSP, so
\* that its buffers, positions, phases and countdowns are no longer as
\* constructed.
NewSolo(type) == [type |-> type, enabled |-> TRUE, touched |-> FALSE]

NodeConnection(s, d, w) ==
    [sourceNodeId |-> s, sourceChannel |-> 0, destNodeId |-> d,
     destChannel |-> 0, weight |-> w]

---------------------------------------------------------------------------
(* std::map helpers *)

MapPut(m, k, v) == [x \in DOMAIN m \cup {k} |-> IF x = k THEN v ELSE m[x]]
MapErase(m, k) == [x \in DOMAIN m \ {k} |-> m[x]]
EmptyMap == [x \in {} |-> 0]

RECURSIVE KeysAscending(_)
\* Iteration order of a std::map<int, ...>: ascending keys.
KeysAscending(S) ==
    IF S = {} THEN <<>>
    ELSE LET m == CHOOSE x \in S : \A y \in S : x <= y
         IN <<m>> \o KeysAscending(S \ {m})

---------------------------------------------------------------------------
(* ModuleGraph::rebuildTopologicalSort, part_002:241-260 *)

\* The in-degree counted at the wrong end of the connection.
inDegreeBySource(ns, conns) ==
    [k \in DOMAIN ns \cup { conns[i].sourceNodeId : i \in DOMAIN conns } |->
        Cardinality({ i \in DOMAIN conns : conns[i].sourceNodeId = k })]

\* Lines 243-245: every node starts at 0; inDegree[c.destNodeId]++ creates an
\* entry for a destination that is no node.
inDegreeOf(ns, conns) ==
    [k \in DOMAIN ns \cup { conns[i].destNodeId : i \in DOMAIN conns } |->
        Cardinality({ i \in DOMAIN conns : conns[i].destNodeId = k })]

RECURSIVE relaxFrom(_, _, _, _, _)
\* Lines 256-258, the loop over connections from index i on, for the popped n.
relaxFrom(conns, i, n, deg, queue) ==
    IF i > Len(conns) THEN [deg |-> deg, queue |-> queue]
    ELSE IF conns[i].sourceNodeId = n
         THEN LET d == conns[i].destNodeId
                  nd == [deg EXCEPT ![d] = @ - 1]
              IN relaxFrom(conns, i + 1, n, nd,
                           IF nd[d] = 0 THEN Append(queue, d) ELSE queue)
         ELSE relaxFrom(conns, i + 1, n, deg, queue)

RECURSIVE kahnLoop(_, _, _, _)
\* Lines 252-259.
kahnLoop(conns, deg, queue, sorted) ==
    IF queue = <<>> THEN sorted
    ELSE LET n == Head(queue)
             r == relaxFrom(conns, 1, n, deg, Tail(queue))
         IN kahnLoop(conns, r.deg, r.queue, Append(sorted, n))

rebuildTopologicalSort(ns, conns) ==
    LET deg == inDegreeOf(ns, conns)
        zero == KeysAscending({ k \in DOMAIN deg : deg[k] = 0 })
    IN kahnLoop(conns, deg, zero, <<>>)

---------------------------------------------------------------------------
(* Structural edits as functions of the graph record g *)

Graph(ns, bufs, conns, nxt) ==
    [nodes |-> ns, nodeBuffers |-> bufs, connections |-> conns,
     sortedNodeIds |-> rebuildTopologicalSort(ns, conns), nextNodeId |-> nxt]

\* Member initialisers, part_002:265-270.
EmptyGraph ==
    [nodes |-> EmptyMap, nodeBuffers |-> {}, connections |-> <<>>,
     sortedNodeIds |-> <<>>, nextNodeId |-> 0]

\* An addNode that hands out the lowest id no node has at the moment.
addNodeReusing(g, type) ==
    LET id == CHOOSE i \in 0 .. g.nextNodeId :
                  /\ i \notin DOMAIN g.nodes
                  /\ \A j \in 0 .. (i - 1) : j \in DOMAIN g.nodes
    IN Graph(MapPut(g.nodes, id, NewNode(type)), g.nodeBuffers,
             g.connections, g.nextNodeId + 1)

\* part_002:119-125
addNode(g, type) ==
    Graph(MapPut(g.nodes, g.nextNodeId, NewNode(type)), g.nodeBuffers,
          g.connections, g.nextNodeId + 1)

\* part_002:127-138
removeNode(g, nodeId) ==
    \* std::remove_if + erase keeps the survivors in their relative order.
    LET Survives(c) == ~(c.sourceNodeId = nodeId \/ c.destNodeId = nodeId)
    IN Graph(MapErase(g.nodes, nodeId), g.nodeBuffers \ {nodeId},
             SelectSeq(g.connections, Survives), g.nextNodeId)

\* part_002:140-144
addConnection(g, conn) ==
    Graph(g.nodes, g.nodeBuffers, Append(g.connections, conn), g.nextNodeId)

\* part_002:146-155
removeConnection(g, srcId, dstId) ==
    LET Survives(c) == ~(c.sourceNodeId = srcId /\ c.destNodeId = dstId)
    IN Graph(g.nodes, g.nodeBuffers, SelectSeq(g.connections, Survives),
             g.nextNodeId)

\* A morphFrom that takes over the enabled flag of the target node once the
\* morph has left its start.
morphFromCopying(node, targetNode, t) ==
    IF t > 0 THEN [node EXCEPT !.enabled = targetNode.enabled] ELSE node


\* part_001:37-41: the default, which no node class overrides.
morphFrom(node, targetNode, t) == node

\* part_002:205-209 from the i-th key of the map on; morphed lists the ids
\* morphFrom was called on.
RECURSIVE morphNodes(_, _, _, _, _, _)
morphNodes(ns, tgt, t, keys, i, morphed) ==
    IF i > Len(keys) THEN [nodes |-> ns, morphed |-> morphed]
    ELSE LET id == keys[i]
         IN IF id \in DOMAIN tgt.nodes
            THEN morphNodes([ns EXCEPT ![id] = morphFrom(@, tgt.nodes[id], t)],
                            tgt, t, keys, i + 1, Append(morphed, id))
            ELSE morphNodes(ns, tgt, t, keys, i + 1, morphed)

\* part_002:203-210: this graph and the const target afterwards.
morphTo(g, tgt, t) ==
    LET r == morphNodes(g.nodes, tgt, t, KeysAscending(DOMAIN g.nodes), 1, <<>>)
    IN [graph |-> [g EXCEPT !.nodes = r.nodes], target |-> tgt,
        morphed |-> r.morphed]

RECURSIVE addNodes(_, _, _)

addNodes(g, types, i) ==
    IF i > Len(types) THEN g ELSE addNodes(addNode(g, types[i]), types, i + 1)

RECURSIVE addChain(_, _, _)
addChain(g, i, n) ==
    IF i >= n THEN g
    ELSE addChain(addConnection(g, NodeConnection(i - 1, i, 1)), i + 1, n)

\* part_002:214-238: ten addNode calls (ids 0..9), then the serial chain.
buildDefaultGraph ==
    addChain(addNodes(EmptyGraph, DefaultTypes, 1), 1, Len(DefaultTypes))

RECURSIVE removeNodesFrom(_, _)
removeNodesFrom(g, id) ==
    IF id >= g.nextNodeId THEN g
    ELSE removeNodesFrom(removeNode(g, id), id + 1)

\* The constructed graph after removeNode of the default nodes InitKeep..9:
\* the shortened default chain the exploration starts from.
InitialGraph == removeNodesFrom(buildDefaultGraph, InitKeep)



---------------------------------------------------------------------------
(* AudioNode::process, the same first statement in all ten node classes:   *)
(*   if (!isEnabled() || pEnabled->load() < 0.5f) return;                  *)

TypeIndex(type) == CHOOSE i \in DOMAIN DefaultTypes : DefaultTypes[i] = type

\* The DSP of a node on one block: a gain per node type that is no identity,
\* tells the types apart and keeps silence silent.
Dsp(type, x) == (TypeIndex(type) + 1) * x

\* The guard without its parameter half.
bypassedByFlagOnly(node, off) == ~node.enabled

\* off: the node types whose <node>_enabled parameter is below 0.5.
bypassed(node, off) == ~node.enabled \/ node.type \in off

\* process() on the block x: the block afterwards, and the node afterwards.
processBlock(node, off, x) ==
    IF bypassed(node, off) THEN x ELSE Dsp(node.type, x)

processState(node, off) ==
    IF bypassed(node, off) THEN node ELSE [node EXCEPT !.touched = TRUE]

---------------------------------------------------------------------------
(* ModuleGraph::prepare, setEnabled, processGraph *)

\* part_002:47-64: nodeBuffers.clear(), then one sized buffer per node.
prepare(g) == [g EXCEPT !.nodeBuffers = DOMAIN g.nodes]

\* part_001:33
setEnabled(g, nodeId, e) == [g EXCEPT !.nodes[nodeId].enabled = e]

Faulted(why) == [fault |-> why]

RECURSIVE mixInputsUnweighted(_, _, _, _, _)
\* The mix with conn.weight left out of addFrom.
mixInputsUnweighted(g, i, nodeId, bufs, acc) ==
    IF i > Len(g.connections) THEN [fault |-> "none", value |-> acc]
    ELSE LET conn == g.connections[i]
         IN IF conn.destNodeId # nodeId
            THEN mixInputsUnweighted(g, i + 1, nodeId, bufs, acc)
            ELSE IF conn.sourceNodeId \notin DOMAIN bufs
                 THEN [fault |-> "no_buffer"]
                 ELSE mixInputsUnweighted(g, i + 1, nodeId, bufs,
                                          acc + bufs[conn.sourceNodeId])

RECURSIVE mixInputs(_, _, _, _, _)
\* part_002:97-103 from connection index i on: outBuf.addFrom(srcBuf, weight).
\* A source buffer prepare() never sized is read past its end.
mixInputs(g, i, nodeId, bufs, acc) ==
    IF i > Len(g.connections) THEN [fault |-> "none", value |-> acc]
    ELSE LET conn == g.connections[i]
         IN IF conn.destNodeId # nodeId
            THEN mixInputs(g, i + 1, nodeId, bufs, acc)
            ELSE IF conn.sourceNodeId \notin DOMAIN bufs
                 THEN Faulted("no_buffer")
                 ELSE mixInputs(g, i + 1, nodeId, bufs,
                                acc + conn.weight * bufs[conn.sourceNodeId])

RECURSIVE visitNodes(_, _, _, _, _)
\* part_002:89-108 from position i of sortedNodeIds on.
visitNodes(g, off, i, bufs, hand) ==
    IF i > Len(g.sortedNodeIds)
    THEN [fault |-> "none", bufs |-> bufs, handed |-> hand]
    ELSE LET nodeId == g.sortedNodeIds[i]
         IN IF nodeId \notin DOMAIN g.nodes
            THEN Faulted("null_node")       \* nodes[nodeId] is a null unique_ptr
            ELSE IF ~g.nodes[nodeId].enabled
            THEN visitNodes(g, off, i + 1, bufs, hand)
            ELSE IF nodeId \notin DOMAIN bufs
            THEN Faulted("no_buffer")       \* nodeBuffers[nodeId] has no samples
            ELSE LET mix == mixInputs(g, 1, nodeId, bufs, bufs[nodeId])
                 IN IF mix.fault # "none" THEN Faulted(mix.fault)
                    ELSE visitNodes(g, off, i + 1,
                             [bufs EXCEPT ![nodeId] =
                                 processBlock(g.nodes[nodeId], off, mix.value)],
                             MapPut(hand, nodeId, mix.value))

\* part_002:74-115 on the block x. The result is the returned block, the
\* buffer each process() call was handed and the scratch buffers at return,
\* or the fault that makes the call undefined. The graph model keeps no DSP
\* state of its nodes: a node is the function processBlock.
processGraph(g, off, x) ==
    IF g.sortedNodeIds = <<>>
    THEN [fault |-> "none", out |-> x, handed |-> EmptyMap,
          finalBuf |-> [id \in g.nodeBuffers |-> 0]]
    ELSE LET first == Head(g.sortedNodeIds)
             last == g.sortedNodeIds[Len(g.sortedNodeIds)]
             cleared == [id \in g.nodeBuffers |-> 0]
         IN IF first \notin g.nodeBuffers THEN Faulted("no_buffer")
            ELSE LET w == visitNodes(g, off, 1, [cleared EXCEPT ![first] = x],
                                     EmptyMap)
                 IN IF w.fault # "none" THEN Faulted(w.fault)
                    ELSE IF last \notin g.nodeBuffers THEN Faulted("no_buffer")
                    ELSE [fault |-> "none", out |-> w.bufs[last],
                          handed |-> w.handed, finalBuf |-> w.bufs]

---------------------------------------------------------------------------
(* Fixed-point floats: FloatOne units make 1.0f, so 1e-6f is four units *)

FloatOne == 4000000
Epsilon == 4                         \* 1e-6f, the change threshold of MacroEngine::process
Half == FloatOne \div 2
Quarter == FloatOne \div 4

Abs(x) == IF x < 0 THEN -x ELSE x

\* n / d rounded to the nearest unit (d > 0).
Quot(n, d) == (2 * n + d) \div (2 * d)

jlimit(lo, hi, v) == IF v < lo THEN lo ELSE IF hi < v THEN hi ELSE v

\* a * b of two floats, rounded to the nearest unit; the product is built
\* from half-words so that no intermediate leaves 32 bits.
FMul(a, b) ==
    LET K == 2000
        a1 == a \div K
        a0 == a % K
        b1 == b \div K
        b0 == b % K
        x == a1 * b0 + a0 * b1
    IN a1 * b1 + (x \div K)
           + (((x % K) * K + a0 * b0 + (K * K) \div 2) \div (K * K))

\* a / b of two floats (b > 0), rounded to the nearest unit, by long division.
RECURSIVE longDivide(_, _, _, _)
longDivide(acc, r, b, factors) ==
    IF factors = <<>> THEN acc + (IF 2 * r >= b THEN 1 ELSE 0)
    ELSE LET t == r * Head(factors)
         IN longDivide(acc * Head(factors) + t \div b, t % b, b, Tail(factors))

FDiv(a, b) == longDivide(a \div b, a % b, b, <<10, 10, 10, 10, 10, 10, 4>>)

jmap(v, sourceMin, sourceMax, targetMin, targetMax) ==
    targetMin
        + FDiv(FMul(targetMax - targetMin, v - sourceMin), sourceMax - sourceMin)

\* std::pow for the exponents the mappings of this model carry.
pow(v, exponent) ==
    CASE exponent = 0 -> FloatOne
      [] exponent = FloatOne -> v
      [] exponent = 2 * FloatOne -> FMul(v, v)

---------------------------------------------------------------------------
(* The parameter store (AudioProcessorValueTreeState): id -> real value *)

NUM_MACROS == 8
MacroIDs ==
    <<"macro_1", "macro_2", "macro_3", "macro_4",
      "macro_5", "macro_6", "macro_7", "macro_8">>
MacroID(m) == MacroIDs[m + 1]
MacroIndices == 0 .. (NUM_MACROS - 1)

DestIDs == {"mix", "master_gain"}

\* part_003:350-355, in the order of the initializer list.
mutateTargets ==
    <<"pr_drift", "pr_shimmer", "swc_depth", "swc_warp", "psd_smear",
      "snm_motion", "gf_curve">>
MutationIDs ==
    { mutateTargets[i] : i \in DOMAIN mutateTargets } \cup {"me_amount", "me_rate"}

ParamIDs ==
    { MacroIDs[i] : i \in DOMAIN MacroIDs } \cup DestIDs \cup MutationIDs
        \cup {"psd_time"}

\* createParameterLayout: NormalisableRange (min, max) and default. The skew
\* of me_rate and psd_time is left out: me_rate is never converted, and
\* psd_time only at the two ends of its range, which no skew moves.
getParameterRange(id) ==
    CASE id = "master_gain" -> [start |-> 0, end |-> 2 * FloatOne]
      [] id = "gf_curve" -> [start |-> -FloatOne, end |-> FloatOne]
      [] id = "me_rate" -> [start |-> FloatOne \div 100, end |-> 8 * FloatOne]
      [] id = "psd_time" -> [start |-> FloatOne \div 100, end |-> 4 * FloatOne]
      [] OTHER -> [start |-> 0, end |-> FloatOne]

defaultValue(id) ==
    CASE id \in DestIDs -> FloatOne
      [] id \in {"swc_depth", "me_rate"} -> Half
      [] id \in {"swc_warp", "psd_smear", "snm_motion"} -> 3 * (FloatOne \div 10)
      [] id = "pr_drift" -> 4 * (FloatOne \div 10)
      [] id \in {"pr_shimmer", "me_amount"} -> 2 * (FloatOne \div 10)
      [] id = "psd_time" -> Quarter
      [] OTHER -> 0


createParameterLayout == [id \in ParamIDs |-> defaultValue(id)]

convertTo0to1(range, v) ==
    jlimit(0, FloatOne, FDiv(v - range.start, range.end - range.start))

convertFrom0to1(range, proportion) ==
    range.start
        + FMul(range.end - range.start, jlimit(0, FloatOne, proportion))

\* apvts.getParameter(id) is null for an id the layout does not hold.
getParameter(store, id) == id \in DOMAIN store

getValue(store, id) == convertTo0to1(getParameterRange(id), store[id])

setValueNotifyingHost(store, id, normalised) ==
    [store EXCEPT ![id] = convertFrom0to1(getParameterRange(id), normalised)]

---------------------------------------------------------------------------
(* MacroEngine *)

MacroMapping(paramID, rangeMin, rangeMax, curve) ==
    [paramID |-> paramID, rangeMin |-> rangeMin, rangeMax |-> rangeMax,
     curve |-> curve, bipolar |-> FALSE]

\* A freshly constructed engine: no mappings, lastMacroValue zero-initialised.
NewSlots == [m \in MacroIndices |-> <<>>]
NewLastMacroValue == [m \in MacroIndices |-> 0]

addMapping(slts, macroIndex, mapping) ==
    [slts EXCEPT ![macroIndex] = Append(@, mapping)]

clearMappings(slts, macroIndex) == [slts EXCEPT ![macroIndex] = <<>>]

\* part_000:47-57: the names and the palette the constructor gives the slots;
\* a juce::Colour is its four bytes <<alpha, red, green, blue>>.
palette ==
    << <<255, 0, 255, 204>>, <<255, 255, 0, 170>>, <<255, 119, 0, 255>>,
       <<255, 0, 170, 255>>, <<255, 255, 85, 0>>, <<255, 0, 255, 68>>,
       <<255, 255, 34, 34>>, <<255, 204, 255, 0>> >>

NewSlotMeta ==
    [m \in MacroIndices |->
        [name |-> "Macro " \o ToString(m + 1), colour |-> palette[m + 1]]]

\* part_000:105
setMacroName(meta, i, n) == [meta EXCEPT ![i].name = n]


macroChangedAtAll(value, last) == value # last

\* The negation of the `continue` test of part_000:71.
macroChanged(value, last) == ~(Abs(value - last) < Epsilon)

mappingTarget(mapping, value) ==
    LET curved == IF mapping.curve = FloatOne THEN value
                  ELSE pow(value, mapping.curve)
    IN jmap(curved, 0, FloatOne, mapping.rangeMin, mapping.rangeMax)

\* The inner loop of process over slot m's mappings, from the i-th on.
\* st is [store, last, writes]; writes lists the parameter writes made.
RECURSIVE applyMappings(_, _, _, _, _)
applyMappings(st, m, mappings, i, value) ==
    IF i > Len(mappings) THEN st
    ELSE LET mapping == mappings[i]
             target == mappingTarget(mapping, value)
             norm == convertTo0to1(getParameterRange(mapping.paramID), target)
         IN IF getParameter(st.store, mapping.paramID)
            THEN applyMappings(
                     [st EXCEPT
                        !.store = setValueNotifyingHost(@, mapping.paramID, norm),
                        !.writes = Append(@, [macro |-> m,
                                              paramID |-> mapping.paramID])],
                     m, mappings, i + 1, value)
            ELSE applyMappings(st, m, mappings, i + 1, value)

RECURSIVE processMacros(_, _, _)
processMacros(st, slts, m) ==
    IF m >= NUM_MACROS THEN st
    ELSE LET value == st.store[MacroID(m)]
         IN IF ~macroChanged(value, st.last[m])
            THEN processMacros(st, slts, m + 1)
            ELSE processMacros(
                     applyMappings([st EXCEPT !.last[m] = value],
                                   m, slts[m], 1, value),
                     slts, m + 1)

\* MacroEngine::process: [store, last, writes] after the call.
macroProcess(store, last, slts) ==
    processMacros([store |-> store, last |-> last, writes |-> <<>>], slts, 0)

---------------------------------------------------------------------------
(* ModulationMatrix *)

SourceTypes == {"LFO_SINE", "LFO_TRI", "LFO_SQUARE", "LFO_RANDOM", "ENVELOPE"}

EnvStages ==
    {"ENV_IDLE", "ENV_ATTACK", "ENV_DECAY", "ENV_SUSTAIN", "ENV_RELEASE"}

\* A ModSource with the member initialisers of the struct for what the
\* caller does not set.
ModSource(type, rate, depth) ==
    [type |-> type, rate |-> rate, depth |-> depth, phase |-> 0,
     attack |-> FloatOne \div 100, envPhase |-> 0, envStage |-> "ENV_IDLE"]

ModRoute(sourceIndex, paramID, amount) ==
    [sourceIndex |-> sourceIndex, paramID |-> paramID, amount |-> amount]

\* std::sin (phase * twoPi) on the eighths of a cycle.
\* std::sin (phase * twoPi) for a phase in [0, 1], each half cycle by
\* Bhaskara's quotient 16 p / (5 - 4 p), p = x (1 - x), which is within
\* 0.0017 of the sine.
sinTwoPi(phase) ==
    LET x == IF phase < Half THEN 2 * phase ELSE 2 * phase - FloatOne
        p == FMul(x, FloatOne - x)
        s == FDiv(16 * p, 5 * FloatOne - 4 * p)
    IN IF phase < Half THEN s ELSE -s

computeSourceValue(src) ==
    CASE src.type = "LFO_SINE" ->
             FMul(sinTwoPi(src.phase), src.depth)
      [] src.type = "LFO_TRI" ->
             FMul(IF src.phase < Half THEN src.phase * 4 - FloatOne
                  ELSE 3 * FloatOne - src.phase * 4, src.depth)
      [] src.type = "LFO_SQUARE" ->
             (IF src.phase < Half THEN src.depth ELSE -src.depth)
      [] OTHER -> 0

\* dt of a block: numSamples / sampleRate seconds.
blockDuration(numSamples, sampleRate) == FDiv(numSamples, sampleRate)

tickSource(src, dt) ==
    IF src.type = "ENVELOPE" THEN src
    ELSE LET phase == src.phase + FMul(src.rate, dt)
         IN [src EXCEPT !.phase = IF phase > FloatOne THEN phase - FloatOne
                                  ELSE phase]

tickSources(srcs, dt) == [i \in DOMAIN srcs |-> tickSource(srcs[i], dt)]

\* A route that maps its source to 0..1 before the amount is applied, as the
\* field ModRoute::bipolar = false would have it.
routeContributionUnipolar(srcs, route) ==
    Quot(FMul((computeSourceValue(srcs[route.sourceIndex + 1]) + FloatOne) \div 2,
              route.amount), 100)

\* What one route adds to the normalised value of its parameter.
routeContribution(srcs, route) ==

    Quot(FMul(computeSourceValue(srcs[route.sourceIndex + 1]), route.amount), 100)

\* The body of the route loop of process (part_000:242-254).
applyRoute(store, srcs, route) ==
    IF route.sourceIndex >= Len(srcs) THEN store
    ELSE IF getParameter(store, route.paramID)
         THEN setValueNotifyingHost(
                  store, route.paramID,
                  jlimit(0, FloatOne,
                         getValue(store, route.paramID)
                             + routeContribution(srcs, route)))
         ELSE store

RECURSIVE applyRoutes(_, _, _, _)
applyRoutes(store, srcs, rts, i) ==
    IF i > Len(rts) THEN store
    ELSE applyRoutes(applyRoute(store, srcs, rts[i]), srcs, rts, i + 1)

\* ModulationMatrix::process: [sources, store] after the call.
modProcess(store, srcs, rts, numSamples, sampleRate) ==
    LET ticked == tickSources(srcs, blockDuration(numSamples, sampleRate))
    IN [sources |-> ticked, store |-> applyRoutes(store, ticked, rts, 1)]

---------------------------------------------------------------------------
(* FreezeCapture, one channel, on blocks of one sample. The capture buffer *)
(* has CAPTURE_SIZE cells, 192000 in the source (part_003:233).            *)

CAPTURE_SIZE == 3

\* part_003:303-305: the members of a constructed node; the vector is empty.
NewFreezeCapture == [captureBuf |-> << >>, writePos |-> 0, readPos |-> 0]

\* part_003:247-254. captureBuf[k + 1] is the cell of index k.
freezePrepare(fc) ==
    [captureBuf |-> [k \in 1 .. CAPTURE_SIZE |-> 0], writePos |-> 0,
     readPos |-> 0]

\* part_003:256
freezeReset(fc) == [fc EXCEPT !.writePos = 0, !.readPos = 0]

\* part_001:76-80. The angle mix * halfPi is mix / 4 of a cycle; its cosine
\* is the sine a quarter cycle on.
eqpCrossfade(dry, wet, mix) ==
    LET angle == mix \div 4
    IN FMul(dry, sinTwoPi(angle + Quarter)) + FMul(wet, sinTwoPi(angle))


\* A clamp to the whole buffer instead of the buffer less one cell.
captureLengthWhole(sizeSamples) == jlimit(1, CAPTURE_SIZE, sizeSamples)

\* part_003:266-267: jlimit (1, CAPTURE_SIZE-1, (int) (sizeSec * sampleRate)),

\* on the product already cut to an int.
captureLength(sizeSamples) == jlimit(1, CAPTURE_SIZE - 1, sizeSamples)

\* part_003:258-299 on the one-sample block x. p: [on, frozen, captureLen,
\* mix, ratio], where on is the value of the guard of line 260, captureLen
\* the clamped length and ratio the 2^(pitch/12) of line 270. readPos is a
\* float, in units of 1/FloatOne of a sample. reads and wrote are the
\* indices of captureBuf the call read and wrote.
freezeProcess(fc, p, x) ==
    IF ~p.on THEN [node |-> fc, out |-> x, reads |-> {}, wrote |-> {}]
    ELSE IF ~p.frozen
    THEN [node |-> [fc EXCEPT
                       !.captureBuf[(fc.writePos % CAPTURE_SIZE) + 1] = x,
                       !.writePos = (fc.writePos + 1) % CAPTURE_SIZE],
          out |-> x, reads |-> {}, wrote |-> {fc.writePos % CAPTURE_SIZE}]
    ELSE LET stepped == fc.readPos + p.ratio
             readPos == IF stepped >= p.captureLen * FloatOne
                        THEN stepped - p.captureLen * FloatOne ELSE stepped
             ri == readPos \div FloatOne
             frac == readPos % FloatOne
             i0 == ri % p.captureLen
             i1 == (ri + 1) % p.captureLen
             s0 == fc.captureBuf[i0 + 1]
             s1 == fc.captureBuf[i1 + 1]
         IN [node |-> [fc EXCEPT !.readPos = readPos],
             out |-> eqpCrossfade(x, s0 + FMul(frac, s1 - s0), p.mix),
             reads |-> {i0, i1}, wrote |-> {}]

---------------------------------------------------------------------------
(* MutationEngine. juce::Random is the sequence of its draws: for each     *)
(* target the outcome of the test of line 359 and the nextFloat of 363.    *)

\* part_003:372; rounds counts the calls that got past line 343.
NewMutationEngine == [samplesUntilMutation |-> 22050, rounds |-> 0]


\* part_003:335
mutationReset(me) == [me EXCEPT !.samplesUntilMutation = 1000]

\* part_003:347: static_cast<int> (sampleRate / rate), the quotient taken
\* in hundredths of the float unit to stay within 32 bits.
samplesPerMutation(sampleRate, rate) ==
    (sampleRate * (FloatOne \div 100)) \div (rate \div 100)

\* The delta without its factor 0.15f.
mutationDeltaUnscaled(r, amount) ==
    LET u == 2 * r - FloatOne
    IN (IF u < 0 THEN -1 ELSE 1) * FMul(Abs(u), amount)

\* part_003:363: (random.nextFloat() * 2.0f - 1.0f) * amount * 0.15f
mutationDelta(r, amount) ==
    LET u == 2 * r - FloatOne
    IN (IF u < 0 THEN -1 ELSE 1)
           * FMul(FMul(Abs(u), amount), 15 * (FloatOne \div 100))

RECURSIVE mutateFrom(_, _, _, _, _)
\* part_003:357-366 from target i on. draws[id].pass: the first draw of the
\* target did not exceed 0.4f; draws[id].r: its second draw.
mutateFrom(store, i, draws, amount, writes) ==
    IF i > Len(mutateTargets) THEN [store |-> store, writes |-> writes]
    ELSE LET paramId == mutateTargets[i]
         IN IF ~draws[paramId].pass \/ ~getParameter(store, paramId)
            THEN mutateFrom(store, i + 1, draws, amount, writes)
            ELSE LET current == getValue(store, paramId)
                     delta == mutationDelta(draws[paramId].r, amount)
                 IN mutateFrom(
                        setValueNotifyingHost(store, paramId,
                            jlimit(0, FloatOne, current + delta)),
                        i + 1, draws, amount, Append(writes, paramId))

\* part_003:338-367 on a block x of numSamples samples; node.enabled and off
\* give the guard of line 340.
mutationProcess(me, node, off, store, sampleRate, draws, numSamples, x) ==
    LET left == me.samplesUntilMutation - numSamples
    IN IF bypassed(node, off)
       THEN [node |-> me, store |-> store, writes |-> << >>, out |-> x]
       ELSE IF left > 0
       THEN [node |-> [me EXCEPT !.samplesUntilMutation = left],
             store |-> store, writes |-> << >>, out |-> x]
       ELSE LET m == mutateFrom(store, 1, draws, store["me_amount"], << >>)
            IN [node |-> [samplesUntilMutation |->
                              samplesPerMutation(sampleRate, store["me_rate"]),
                          rounds |-> me.rounds + 1],
                store |-> m.store, writes |-> m.writes, out |-> x]

---------------------------------------------------------------------------
(* PitchSmearDelay, channel 0, on blocks of one sample. The model keeps    *)
(* the positions and the length of delayBuf, not the samples in it.        *)

MAX_DELAY_SAMPLES == 192000

\* part_003:87-91: the members of a constructed node; the vectors are empty.
NewPitchSmearDelay ==
    [bufLen |-> 0, writePos |-> 0, smearPhase |-> 0, sampleRate |-> 44100]


\* part_003:31-41
delayPrepare(psd, sampleRate) ==
    [bufLen |-> MAX_DELAY_SAMPLES, writePos |-> 0, smearPhase |-> 0,
     sampleRate |-> sampleRate]

\* static_cast<int> of a quotient, and the % of C++: both towards zero.
truncDiv(a, b) == IF a < 0 THEN -((-a) \div b) ELSE a \div b
rem(a, b) == a - b * truncDiv(a, b)

\* part_003:56-57: jlimit (1, MAX_DELAY_SAMPLES-1, (int) (delaySec * sampleRate)),
\* the product taken in thousandths of a second and hundreds of Hz.
delayLength(delaySec, sampleRate) ==
    jlimit(1, MAX_DELAY_SAMPLES - 1,
           ((delaySec \div 1000) * (sampleRate \div 100))
               \div (FloatOne \div 100000))

\* part_003:64-73 and 77-78 for one sample: the length, the three indices
\* and the node afterwards. readPosF is kept in thousandths of a sample.
delayProcess(psd, store) ==
    LET smear == FMul(store["psd_smear"], FloatOne \div 50)
        delayLen == delayLength(store["psd_time"], psd.sampleRate)
        stepped == psd.smearPhase + 3 * (FloatOne \div 10000)
        phase == IF stepped > FloatOne THEN stepped - FloatOne ELSE stepped
        mod == sinTwoPi(phase)
        depth == ((FMul(Abs(mod), smear) \div 40) * delayLen) \div 100
        modOffset == IF mod < 0 THEN -depth ELSE depth
        readPosF == (psd.writePos - delayLen + MAX_DELAY_SAMPLES) * 1000
                        + modOffset
        readI == rem(truncDiv(readPosF, 1000), MAX_DELAY_SAMPLES)
    IN [delayLen |-> delayLen, readI |-> readI,
        readNext |-> rem(readI + 1, MAX_DELAY_SAMPLES),
        writeI |-> psd.writePos,
        node |-> [psd EXCEPT !.smearPhase = phase,
                             !.writePos = (@ + 1) % MAX_DELAY_SAMPLES]]

---------------------------------------------------------------------------
(* PresetManager: the preset list, the index of the loaded preset and the  *)
(* files of the user preset directory. A preset's state is a copy of the   *)
(* parameter store; indices are those of the std::vector, from 0.          *)

\* The length of the factory list: 20 in the source (PresetManager.h:77 and
\* the defs array of loadFactoryPresets), here its first entries.
NUM_FACTORY_PRESETS == 3

\* PresetManager.h:200-242, name, tag bitmask (PresetManager.h:5-18), text.
FactoryDefs ==
    << [name |-> "Abyss Gate", tags |-> 16 + 4 + 2,
        desc |-> "Portal-deep reverb wash with slow drift. Glo trap essentials."],
       [name |-> "Ghost Frequency", tags |-> 1 + 32,
        desc |-> "Spectral warp choir that haunts. Leads with no attack, only presence."],
       [name |-> "Jeezy Void", tags |-> 4 + 8,
        desc |-> "2007 trap energy passed through a dimensional gate."],
       [name |-> "Plasma String", tags |-> 512 + 2,
        desc |-> "Bowed synth with plasma arc on the body. Cinematic leads."] >>

\* struct SnotPreset with its member initialisers, PresetManager.h:43-52.
SnotPreset(state) ==
    [name |-> "Init", author |-> "SNOT", description |-> "", tags |-> 0,
     bpm |-> 140, bpmSync |-> TRUE, state |-> state]

\* PresetManager.h:188-254
loadFactoryPresets(allPresets, state) ==
    allPresets \o
        [k \in 1 .. NUM_FACTORY_PRESETS |->
            [SnotPreset(state) EXCEPT !.name = FactoryDefs[k].name,
                                      !.author = "SNOT Factory",
                                      !.tags = FactoryDefs[k].tags,
                                      !.description = FactoryDefs[k].desc]]

\* PresetManager.h:267-283: bpmSync is not written.
presetToJson(preset) ==
    [isObject |-> TRUE, name |-> preset.name, author |-> preset.author,
     desc |-> preset.description, tags |-> preset.tags, bpm |-> preset.bpm,
     version |-> 1, state |-> preset.state]

\* PresetManager.h:285-301: bpmSync keeps its initialiser.
presetFromJson(json) ==
    [SnotPreset(json.state) EXCEPT !.name = json.name,
                                   !.author = json.author,
                                   !.description = json.desc,
                                   !.tags = json.tags,
                                   !.bpm = json.bpm]

\* PresetManager.h:256-265: files are the *.snot files of the directory in
\* the order findChildFiles yields them.
RECURSIVE scanUserPresets(_, _, _)
scanUserPresets(allPresets, files, i) ==
    IF i > Len(files) THEN allPresets
    ELSE scanUserPresets(IF files[i].isObject
                             THEN Append(allPresets, presetFromJson(files[i]))
                             ELSE allPresets,
                         files, i + 1)

\* The constructor, PresetManager.h:79-89, and currentIndex { 0 } (line 308).
NewPresetManager(state, files) ==
    [allPresets |-> scanUserPresets(loadFactoryPresets(<<>>, state), files, 1),
     currentIndex |-> 0]

\* PresetManager.h:92
getNumPresets(pm) == Len(pm.allPresets)

\* A loadPreset that takes any index for the current one.
loadPresetUnchecked(pm, state, index) ==
    [pm |-> [pm EXCEPT !.currentIndex = index],
     state |-> IF index < 0 \/ index >= Len(pm.allPresets) THEN state
               ELSE pm.allPresets[index + 1].state]

\* PresetManager.h:103-108; state is the parameter store replaceState fills.
loadPreset(pm, state, index) ==
    IF index < 0 \/ index >= Len(pm.allPresets) THEN [pm |-> pm, state |-> state]
    ELSE [pm |-> [pm EXCEPT !.currentIndex = index],
          state |-> pm.allPresets[index + 1].state]

\* PresetManager.h:110-113; % by zero if the list were empty.
loadNextPreset(pm, state) ==
    loadPreset(pm, state, (pm.currentIndex + 1) % getNumPresets(pm))

\* PresetManager.h:115-118
loadPrevPreset(pm, state) ==
    loadPreset(pm, state,
               (pm.currentIndex - 1 + getNumPresets(pm)) % getNumPresets(pm))

\* PresetManager.h:121-139, author and description defaulted.
saveCurrentAsUser(pm, dir, state, name, tags) ==
    LET preset == [SnotPreset(state) EXCEPT !.name = name, !.author = "User",
                                            !.description = "", !.tags = tags]
        all == Append(pm.allPresets, preset)
    IN [pm |-> [allPresets |-> all, currentIndex |-> Len(all) - 1],
        dir |-> MapPut(dir, name, presetToJson(preset))]

\* PresetManager.h:173-184; file is [exists, extension, json].
importPreset(pm, file) ==
    IF ~file.exists \/ file.extension # ".snot" THEN [pm |-> pm, ok |-> FALSE]
    ELSE IF ~file.json.isObject THEN [pm |-> pm, ok |-> FALSE]
    ELSE [pm |-> [pm EXCEPT !.allPresets =
                                Append(@, presetFromJson(file.json))],
          ok |-> TRUE]

---------------------------------------------------------------------------
(* SpectralWarpChorus, one channel: the input fifo and the frame handed to *)

(* the window and the transform. FFT_ORDER is 11 in the source             *)
(* (part_001:379); the spectral processing of the frame is not modelled.   *)

FFT_ORDER == 3
FFT_SIZE == 2 ^ FFT_ORDER
HOP_SIZE == FFT_SIZE \div 4

\* part_001:549-552: the members of a constructed node; the vector is empty.
NewSpectralWarpChorus == [inFifo |-> << >>, fifoIndex |-> 0]

\* part_001:412-425. inFifo[k + 1] is the cell of index k.
chorusPrepare(c) == [inFifo |-> [k \in 1 .. FFT_SIZE |-> 0], fifoIndex |-> 0]

\* part_001:427-437
chorusReset(c) == [inFifo |-> [k \in DOMAIN c.inFifo |-> 0], fifoIndex |-> 0]

\* part_001:477-479: fftData before the window is applied.
spectralFrame(c) ==
    SubSeq(c.inFifo, HOP_SIZE + 1, FFT_SIZE) \o SubSeq(c.inFifo, 1, HOP_SIZE)

\* part_001:448-464 from sample s of the block on; frames: the frames taken
\* so far, each with the number of samples of the block read before it.
RECURSIVE chorusSamples(_, _, _, _)
chorusSamples(c, block, s, frames) ==
    IF s > Len(block) THEN [node |-> c, frames |-> frames]
    ELSE LET written == [c EXCEPT !.inFifo[c.fifoIndex + 1] = block[s]]
             fifoIndex == c.fifoIndex + 1
         IN IF fifoIndex >= HOP_SIZE
            THEN chorusSamples([written EXCEPT !.fifoIndex = 0], block, s + 1,
                               Append(frames, [at |-> s,
                                               data |-> spectralFrame(written)]))
            ELSE chorusSamples([written EXCEPT !.fifoIndex = fifoIndex],
                               block, s + 1, frames)

\* part_001:441-465; on: the value of the guard of line 443.
chorusProcess(c, on, block) ==
    IF ~on THEN [node |-> c, frames |-> << >>]
    ELSE chorusSamples(c, block, 1, << >>)

---------------------------------------------------------------------------
(* PortalReverb: the positions of the shimmer buffer. The buffer has       *)
(* sampleRate * 0.5 cells in the source (part_001:150), ShimmerLen here;   *)
(* the delay lines and the samples are not modelled.                       *)

NUM_FDL == 8
ShimmerLen == 20

\* part_001:345-347: the members of a constructed node; the buffer is empty.
NewPortalReverb ==
    [shimmerLen |-> 0, shimmerReadPos |-> 0, shimmerWritePos |-> 0]

\* part_001:150-153
reverbPrepare(rv) ==
    [shimmerLen |-> ShimmerLen, shimmerReadPos |-> 0, shimmerWritePos |-> 0]

\* part_001:309-320: the position after the call; one pass of the while
\* loop is enough for a position that was below bufLen.
getShimmerSample(rv) ==
    LET stepped == rv.shimmerReadPos + 2
    IN [rv EXCEPT !.shimmerReadPos = IF stepped >= rv.shimmerLen
                                     THEN stepped - rv.shimmerLen
                                     ELSE stepped]

\* part_001:211-242: the loop over the delay lines from line i on.
RECURSIVE feedDelayLines(_, _, _)
feedDelayLines(rv, shimmer, i) ==
    IF i >= NUM_FDL THEN rv
    ELSE feedDelayLines(IF shimmer > FloatOne \div 1000
                        THEN getShimmerSample(rv) ELSE rv,
                        shimmer, i + 1)

\* part_001:170-263 on a block of one sample; on: the guard of line 172.
reverbProcess(rv, on, store) ==
    IF ~on THEN rv
    ELSE LET fed == feedDelayLines(rv, store["pr_shimmer"], 0)
         IN [fed EXCEPT !.shimmerWritePos = (@ + 1) % rv.shimmerLen]

---------------------------------------------------------------------------
(* The ModuleGraph object as state *)






CurrentGraph ==
    [nodes |-> nodes, nodeBuffers |-> nodeBuffers, connections |-> connections,
     sortedNodeIds |-> sortedNodeIds, nextNodeId |-> nextNodeId]

Becomes(g) ==
    /\ nodes' = g.nodes
    /\ nodeBuffers' = g.nodeBuffers
    /\ connections' = g.connections
    /\ sortedNodeIds' = g.sortedNodeIds
    /\ nextNodeId' = g.nextNodeId

\* The record of the last block is dropped when the configuration it was
\* computed under changes.
NoRun == [valid |-> FALSE]

\* The audio thread outside process; the control thread outside a mutation.
AudioIdle == [pc |-> "idle", i |-> 0, end |-> 0, idx |-> 0, stale |-> FALSE]
NoMutation == [op |-> "none"]
NoTree == [kind |-> "none"]
Forget == run' = NoRun

\* Ids a caller may pass: the kept default nodes and the ids addNode hands out
\* (unknown to the graph before addNode and after removeNode).
FirstNewId == Len(DefaultTypes)
IdInputs ==
    (0 .. (InitKeep - 1)) \cup (FirstNewId .. (FirstNewId + MaxNewNodes - 1))
AddTypes == {"mutation_engine"}

CallAddNode(type) ==
    /\ nextNodeId < FirstNewId + MaxNewNodes
    /\ Becomes(addNode(CurrentGraph, type))
    /\ Forget
    /\ UNCHANGED <<restVars, solo, paramOff, fault, controlVars>>

CallRemoveNode(nodeId) ==
    /\ Becomes(removeNode(CurrentGraph, nodeId))
    /\ Forget
    /\ UNCHANGED <<restVars, solo, paramOff, fault, controlVars>>

CallAddConnection(conn) ==
    /\ Becomes(addConnection(CurrentGraph, conn))
    /\ Forget
    /\ UNCHANGED <<restVars, solo, paramOff, fault, controlVars>>

CallRemoveConnection(srcId, dstId) ==
    /\ Becomes(removeConnection(CurrentGraph, srcId, dstId))
    /\ Forget
    /\ UNCHANGED <<restVars, solo, paramOff, fault, controlVars>>

InitGraph ==
    /\ nodes = InitialGraph.nodes
    /\ nodeBuffers = InitialGraph.nodeBuffers
    /\ connections = InitialGraph.connections
    /\ sortedNodeIds = InitialGraph.sortedNodeIds
    /\ nextNodeId = InitialGraph.nextNodeId
    /\ paramOff = {}
    /\ run = NoRun
    /\ fault = "none"
    /\ apvts = createParameterLayout
    /\ lastMacroValue = NewLastMacroValue
    /\ slots = NewSlots
    /\ sources = <<>>
    /\ routes = <<>>
    /\ audio = AudioIdle
    /\ ctl = NoMutation
    /\ editing = "none"
    /\ saved = NoTree
    /\ slotMeta = NewSlotMeta
    /\ capture = NewFreezeCapture
    /\ mutation = NewMutationEngine
    /\ delay = NewPitchSmearDelay
    /\ chorus = NewSpectralWarpChorus
    /\ reverb = NewPortalReverb
    /\ targetGraph = InitialGraph
    /\ issued = [k \in DOMAIN DefaultTypes |->
                    [id |-> k - 1, type |-> DefaultTypes[k]]]
    /\ userPresetsDir = EmptyMap
    /\ presetManager = NewPresetManager(createParameterLayout, <<>>)



Init == InitGraph /\ solo = NewSolo(DefaultTypes[1])

\* ---- structural edits only ----
NextGraph ==
    \/ \E t \in AddTypes : CallAddNode(t)
    \/ \E id \in IdInputs : CallRemoveNode(id)
    \/ /\ Len(connections) < MaxConns
       /\ \E s \in IdInputs, d \in IdInputs :
              CallAddConnection(NodeConnection(s, d, 1))
    \/ \E s \in IdInputs, d \in IdInputs : CallRemoveConnection(s, d)

SpecGraph == Init /\ [][NextGraph]_vars

CallPrepare ==
    /\ Becomes(prepare(CurrentGraph))
    /\ Forget
    /\ UNCHANGED <<restVars, solo, paramOff, fault, controlVars>>

CallSetEnabled(nodeId, e) ==
    /\ nodeId \in DOMAIN nodes
    /\ Becomes(setEnabled(CurrentGraph, nodeId, e))
    /\ Forget
    /\ UNCHANGED <<restVars, solo, paramOff, fault, controlVars>>

\* A host or user write of a node's <node>_enabled parameter.
SetEnabledParam(type, on) ==
    /\ paramOff' = IF on THEN paramOff \ {type} ELSE paramOff \cup {type}
    /\ Forget
    /\ UNCHANGED <<restVars, graphVars, solo, fault, controlVars>>

CallProcessGraph(x) ==
    LET r == processGraph(CurrentGraph, paramOff, x)
    IN /\ IF r.fault # "none"
          THEN fault' = r.fault /\ run' = NoRun
          ELSE /\ fault' = fault
               /\ run' = [valid |-> TRUE, kind |-> "graph", in |-> x,
                          out |-> r.out, handed |-> r.handed,
                          finalBuf |-> r.finalBuf]
       /\ UNCHANGED <<restVars, graphVars, solo, paramOff, controlVars>>

\* part_001:33 on the node object on its own.
SoloSetEnabled(e) ==
    /\ solo' = [solo EXCEPT !.enabled = e]
    /\ Forget
    /\ UNCHANGED <<restVars, graphVars, paramOff, fault, controlVars>>

\* process() of the node object called on the block x.
SoloProcess(x) ==
    /\ solo' = processState(solo, paramOff)
    /\ run' = [valid |-> TRUE, kind |-> "node", in |-> x,
               out |-> processBlock(solo, paramOff, x), before |-> solo,
               off |-> paramOff]
    /\ UNCHANGED <<restVars, graphVars, paramOff, fault, controlVars>>

BlockInputs == {0, 1}
Alive == fault = "none"
AddWeights == {2}

\* ---- graph building, enable flags and audio blocks ----
NextAudio ==
    \/ Alive /\ \E t \in AddTypes : CallAddNode(t)
    \/ /\ Alive
       /\ Len(connections) < MaxConns + 1
       /\ \E s \in IdInputs, d \in IdInputs, w \in AddWeights :
              CallAddConnection(NodeConnection(s, d, w))
    \/ Alive /\ CallPrepare
    \/ Alive /\ \E id \in IdInputs, e \in BOOLEAN : CallSetEnabled(id, e)
    \/ Alive /\ \E x \in BlockInputs : CallProcessGraph(x)

SpecAudio == Init /\ [][NextAudio]_vars

\* ---- one node's process() under its two enable switches ----
InitNode ==
    /\ InitGraph
    /\ solo \in { NewSolo(t) : t \in NodeTypes }

NextNode ==
    \/ \E e \in BOOLEAN : SoloSetEnabled(e)
    \/ \E on \in BOOLEAN : SetEnabledParam(solo.type, on)
    \/ \E x \in BlockInputs : SoloProcess(x)
    \/ Alive /\ CallPrepare
    \/ Alive /\ \E id \in IdInputs, e \in BOOLEAN : CallSetEnabled(id, e)
    \/ Alive /\ \E x \in BlockInputs : CallProcessGraph(x)

SpecNode == InitNode /\ [][NextNode]_vars

---------------------------------------------------------------------------
(* MacroEngine and the parameter store as state *)

MaxMappings == 2     \* mappings held by all macro slots together

RECURSIVE mappingCount(_, _)
mappingCount(slts, m) ==
    IF m >= NUM_MACROS THEN 0 ELSE Len(slts[m]) + mappingCount(slts, m + 1)

\* Macros the host moves (the first and the last knob), the values it writes
\* (0.0, 1.0 and a quarter of an epsilon below 1.0), and the mappings the
\* editor adds.
DrivenMacros == {0, NUM_MACROS - 1}
HostValues == {0, FloatOne - 1, FloatOne}
MappingInputs ==
    { MacroMapping("mix", Quarter, 3 * Quarter, FloatOne),
      MacroMapping("master_gain", Half, 2 * FloatOne, 2 * FloatOne) }

\* A write of a parameter by the host, the editor or MidiRouter.
HostSetsParameter(id, normalised) ==
    /\ apvts' = setValueNotifyingHost(apvts, id, normalised)
    /\ Forget
    /\ UNCHANGED <<restVars, graphVars, solo, paramOff, fault, lastMacroValue, slots,
                   sources, routes>>

CallAddMapping(macroIndex, mapping) ==
    /\ slots' = addMapping(slots, macroIndex, mapping)
    /\ Forget
    /\ UNCHANGED <<restVars, graphVars, solo, paramOff, fault, apvts, lastMacroValue,
                   sources, routes>>

CallClearMappings(macroIndex) ==
    /\ slots' = clearMappings(slots, macroIndex)
    /\ Forget
    /\ UNCHANGED <<restVars, graphVars, solo, paramOff, fault, apvts, lastMacroValue,
                   sources, routes>>

CallMacroProcess ==
    LET r == macroProcess(apvts, lastMacroValue, slots)
    IN /\ apvts' = r.store
       /\ lastMacroValue' = r.last
       /\ run' = [valid |-> TRUE, kind |-> "macro",
                  before |-> [apvts |-> apvts, last |-> lastMacroValue],
                  writes |-> r.writes]
       /\ UNCHANGED <<restVars, graphVars, solo, paramOff, fault, slots, sources, routes>>

\* ---- macro knobs, mappings, user edits and MacroEngine::process ----
NextMacro ==
    \/ \E m \in DrivenMacros, v \in HostValues :
           HostSetsParameter(MacroID(m), v)
    \/ \E id \in DestIDs : HostSetsParameter(id, Half)
    \/ /\ mappingCount(slots, 0) < MaxMappings
       /\ \E m \in DrivenMacros, mp \in MappingInputs : CallAddMapping(m, mp)
    \/ \E m \in DrivenMacros : slots[m] # <<>> /\ CallClearMappings(m)
    \/ CallMacroProcess

SpecMacro == Init /\ [][NextMacro]_vars

---------------------------------------------------------------------------
(* ModulationMatrix as state *)

MaxSources == 1      \* length of the source vector
MaxRoutes == 2       \* length of the route vector

DefaultSampleRate == 44100
BlockLengths == {11025}              \* a quarter of a second per block
DefaultRate == FloatOne              \* ModSource::rate, 1 Hz
SourceInputs ==
    { ModSource(t, DefaultRate, 25 * FloatOne) :
          t \in {"LFO_SQUARE", "LFO_TRI", "ENVELOPE"} }
        \cup { [ModSource("ENVELOPE", DefaultRate, 25 * FloatOne)
                   EXCEPT !.envStage = "ENV_ATTACK"] }
RouteInputs ==
    { ModRoute(s, id, a) :
          s \in 0 .. MaxSources, id \in DestIDs, a \in {FloatOne, -FloatOne} }

CallAddSource(src) ==
    /\ sources' = Append(sources, src)
    /\ Forget
    /\ UNCHANGED <<restVars, graphVars, solo, paramOff, fault, apvts, lastMacroValue,
                   slots, routes>>

CallAddRoute(route) ==
    /\ routes' = Append(routes, route)
    /\ Forget
    /\ UNCHANGED <<restVars, graphVars, solo, paramOff, fault, apvts, lastMacroValue,
                   slots, sources>>

CallClearAll ==
    /\ sources' = <<>>
    /\ routes' = <<>>
    /\ Forget
    /\ UNCHANGED <<restVars, graphVars, solo, paramOff, fault, apvts, lastMacroValue,
                   slots>>

CallModProcess(numSamples) ==
    LET r == modProcess(apvts, sources, routes, numSamples, DefaultSampleRate)
    IN /\ sources' = r.sources
       /\ apvts' = r.store
       /\ run' = [valid |-> TRUE, kind |-> "mod", numSamples |-> numSamples,
                  before |-> [apvts |-> apvts, sources |-> sources]]

       /\ UNCHANGED <<restVars, graphVars, solo, paramOff, fault, lastMacroValue, slots,
                      routes>>

\* ---- sources, routes and ModulationMatrix::process ----
NextMod ==
    \/ Len(sources) < MaxSources /\ \E s \in SourceInputs : CallAddSource(s)
    \/ Len(routes) < MaxRoutes /\ \E r \in RouteInputs : CallAddRoute(r)
    \/ (sources # <<>> \/ routes # <<>>) /\ CallClearAll
    \/ \E n \in BlockLengths : CallModProcess(n)

SpecMod == Init /\ [][NextMod]_vars

---------------------------------------------------------------------------
(* ModulationMatrix::process against addSource / addRoute / clearAll, one  *)
(* statement at a time. The mutators hold `lock` (part_000:261, 268, 274); *)
(* process takes no lock, so nothing makes it wait.                        *)

RaceSource == ModSource("LFO_SQUARE", DefaultRate, 25 * FloatOne)
RaceRoute == ModRoute(0, "mix", FloatOne)
MutationOps == {"addSource", "addRoute", "clearAll"}

WritesSources(op) == op \in {"addSource", "clearAll"}
WritesRoutes(op) == op \in {"addRoute", "clearAll"}
InRouteLoop == audio.pc \in {"routes", "use"}

threadFrame ==
    UNCHANGED <<graphVars, solo, paramOff, run, lastMacroValue, slots, editing,
                saved, slotMeta, nodeVars>>

\* The control thread takes the lock and starts to mutate.
MutationBegins(op) ==
    /\ ctl = NoMutation
    /\ op = "addSource" => Len(sources) < MaxSources
    /\ op = "addRoute" => Len(routes) < MaxRoutes
    /\ ctl' = [op |-> op]
    /\ UNCHANGED <<sources, routes, apvts, audio, fault>>
    /\ threadFrame

\* The mutation is done and the lock released. A push_back may have moved
\* the elements; clear() has destroyed them: iterators of a loop under way
\* over the route vector are then invalid.
MutationEnds ==
    /\ ctl # NoMutation
    /\ sources' = CASE ctl.op = "addSource" -> Append(sources, RaceSource)
                    [] ctl.op = "clearAll" -> <<>>
                    [] OTHER -> sources
    /\ routes' = CASE ctl.op = "addRoute" -> Append(routes, RaceRoute)
                   [] ctl.op = "clearAll" -> <<>>
                   [] OTHER -> routes
    /\ ctl' = NoMutation
    /\ \E moved \in BOOLEAN :
           audio' = IF InRouteLoop /\ ctl.op = "clearAll"
                    THEN [audio EXCEPT !.stale = TRUE]
                    ELSE IF InRouteLoop /\ ctl.op = "addRoute"
                    THEN [audio EXCEPT !.stale = @ \/ moved]
                    ELSE audio
    /\ UNCHANGED <<apvts, fault>>
    /\ threadFrame

\* part_000:229-237: dt and the loop over sources.
ProcessTicks(numSamples) ==
    /\ audio.pc = "idle"
    /\ IF WritesSources(ctl.op)
       THEN fault' = "data_race" /\ UNCHANGED <<sources, audio>>
       ELSE /\ sources' = tickSources(
                              sources, blockDuration(numSamples, DefaultSampleRate))
            /\ audio' = [AudioIdle EXCEPT !.pc = "begin"]
            /\ fault' = fault
    /\ UNCHANGED <<routes, apvts, ctl>>
    /\ threadFrame

\* part_000:240: the range-for takes routes.begin() and routes.end().
ProcessEntersRouteLoop ==
    /\ audio.pc = "begin"
    /\ IF WritesRoutes(ctl.op)
       THEN fault' = "data_race" /\ audio' = audio
       ELSE /\ audio' = [audio EXCEPT !.pc = "routes", !.i = 1,
                                      !.end = Len(routes)]
            /\ fault' = fault
    /\ UNCHANGED <<sources, routes, apvts, ctl>>
    /\ threadFrame

\* part_000:240-242: the loop test, then route.sourceIndex against
\* sources.size().
ProcessChecksRoute ==
    /\ audio.pc = "routes"
    /\ IF audio.i > audio.end
       THEN audio' = AudioIdle /\ fault' = fault
       ELSE IF audio.stale
       THEN fault' = "dangling_iterator" /\ audio' = audio
       ELSE IF ctl # NoMutation
       THEN fault' = "data_race" /\ audio' = audio
       ELSE /\ fault' = fault
            /\ audio' = IF routes[audio.i].sourceIndex >= Len(sources)
                        THEN [audio EXCEPT !.i = @ + 1]
                        ELSE [audio EXCEPT !.pc = "use",
                                           !.idx = routes[audio.i].sourceIndex]
    /\ UNCHANGED <<sources, routes, apvts, ctl>>
    /\ threadFrame

\* part_000:243-254: sources[route.sourceIndex], its value, the parameter.
ProcessUsesRoute ==
    /\ audio.pc = "use"
    /\ IF audio.idx >= Len(sources)
       THEN fault' = "out_of_range" /\ UNCHANGED <<audio, apvts>>
       ELSE IF audio.stale
       THEN fault' = "dangling_iterator" /\ UNCHANGED <<audio, apvts>>
       ELSE IF ctl # NoMutation
       THEN fault' = "data_race" /\ UNCHANGED <<audio, apvts>>
       ELSE /\ fault' = fault
            /\ apvts' = applyRoute(apvts, sources, routes[audio.i])
            /\ audio' = [audio EXCEPT !.pc = "routes", !.i = @ + 1]
    /\ UNCHANGED <<sources, routes, ctl>>
    /\ threadFrame

\* ---- the two threads of ModulationMatrix interleaved ----
NextModRace ==
    \/ Alive /\ \E op \in MutationOps : MutationBegins(op)
    \/ Alive /\ MutationEnds
    \/ Alive /\ \E n \in BlockLengths : ProcessTicks(n)
    \/ Alive /\ ProcessEntersRouteLoop
    \/ Alive /\ ProcessChecksRoute
    \/ Alive /\ ProcessUsesRoute

SpecModRace == Init /\ [][NextModRace]_vars



---------------------------------------------------------------------------
(* Vocabulary of the claims about the topology *)

Edges(conns) ==
    { <<conns[i].sourceNodeId, conns[i].destNodeId>> : i \in DOMAIN conns }

RECURSIVE Downstream(_, _)
\* The ids reachable from the ids of S along one or more edges of E.
Downstream(E, S) ==
    LET step == { e[2] : e \in { f \in E : f[1] \in S } }
    IN IF step \subseteq S THEN S ELSE Downstream(E, S \cup step)

HasPath(E, a, b) ==
    \E e \in E : e[1] = a /\ b \in Downstream(E, {e[2]})

Acyclic(E) == \A e \in E : ~HasPath(E, e[1], e[1])

\* Adding the edge s -> d to E closes a cycle.
ClosesCycle(E, s, d) == s = d \/ HasPath(E, d, s)

ReferencesExist ==
    \A i \in DOMAIN connections :
        /\ connections[i].sourceNodeId \in DOMAIN nodes
        /\ connections[i].destNodeId \in DOMAIN nodes

Positions(id) == { p \in DOMAIN sortedNodeIds : sortedNodeIds[p] = id }

\* The step appended one connection to the vector.
Appended ==
    /\ Len(connections') = Len(connections) + 1
    /\ SubSeq(connections', 1, Len(connections)) = connections

---------------------------------------------------------------------------
(* C1..C4: the cached order *)

\* C1: when every connection references existing nodes and the connections
\* form no cycle, getSortedNodeIds() is a topological order: for every
\* connection s -> d both ends are in the order and s comes before d.
C1_TopologicalOrder ==
    (ReferencesExist /\ Acyclic(Edges(connections))) =>
        \A i \in DOMAIN connections :
            LET s == connections[i].sourceNodeId
                d == connections[i].destNodeId
            IN /\ Positions(s) # {}
               /\ Positions(d) # {}
               /\ \A p \in Positions(s), q \in Positions(d) : p < q

\* An acyclic graph of two connections whose order is not the ascending id
\* order of the node map.
C1_Witness ==
    /\ ReferencesExist
    /\ Acyclic(Edges(connections))
    /\ Len(connections) >= 2
    /\ \E p \in DOMAIN sortedNodeIds :
           p > 1 /\ sortedNodeIds[p - 1] > sortedNodeIds[p]

\* C2: a connection that would close a cycle (a self-loop included) is
\* rejected: no call appends it to the connection vector.
C2_CycleRejected ==
    [][ Appended =>
          ~ClosesCycle(Edges(connections),
                       connections'[Len(connections')].sourceNodeId,
                       connections'[Len(connections')].destNodeId) ]_vars

\* C3: the cached order holds every current node id exactly once and no id
\* that is not a current node.
C3_OrderIsTheNodeSet ==
    /\ Len(sortedNodeIds) = Cardinality(DOMAIN nodes)
    /\ { sortedNodeIds[p] : p \in DOMAIN sortedNodeIds } = DOMAIN nodes

\* C4: every connection's sourceNodeId and destNodeId are ids of current
\* nodes (an addConnection naming an unknown id is rejected).
C4_ConnectionsReferenceNodes == ReferencesExist

---------------------------------------------------------------------------
(* C5..C7: one block through the graph *)

GraphRun == run.valid /\ run.kind = "graph"
NodeRun == run.valid /\ run.kind = "node"

OrderIds == { sortedNodeIds[p] : p \in DOMAIN sortedNodeIds }
LastId == sortedNodeIds[Len(sortedNodeIds)]

RECURSIVE WeightedInputs(_, _, _)
\* The sum over the connections i.. into nodeId of weight times the buffer
\* of the source in bufs.
WeightedInputs(i, nodeId, bufs) ==
    IF i > Len(connections) THEN 0
    ELSE (IF connections[i].destNodeId = nodeId
          THEN connections[i].weight * bufs[connections[i].sourceNodeId]
          ELSE 0) + WeightedInputs(i + 1, nodeId, bufs)

RECURSIVE PassThrough(_, _, _)
\* The block in the reading where a disabled node forwards its summed input:
\* every node of the order takes its inputs, an enabled one processes them.
PassThrough(i, x, bufs) ==
    IF i > Len(sortedNodeIds) THEN bufs
    ELSE LET n == sortedNodeIds[i]
             input == (IF i = 1 THEN x ELSE 0) + WeightedInputs(1, n, bufs)
         IN PassThrough(i + 1, x,
                [bufs EXCEPT ![n] = IF nodes[n].enabled
                                    THEN processBlock(nodes[n], paramOff, input)
                                    ELSE input])

PassThroughOutput(x) ==
    PassThrough(1, x, [n \in OrderIds |-> 0])[LastId]

\* C5: on an acyclic graph, a block processed with a node disabled comes out
\* as if that node forwarded its summed input unchanged to its downstream
\* nodes, wherever the node sits in the order.
C5_BypassTransparency ==
    (/\ GraphRun
     /\ ReferencesExist
     /\ Acyclic(Edges(connections))
     /\ sortedNodeIds # <<>>
     /\ \E n \in DOMAIN nodes : ~nodes[n].enabled)
        => run.out = PassThroughOutput(run.in)

\* C6: every enabled node of the order is handed (the block input if it is
\* first in the order, else zero) plus the weighted sum, over all connections
\* into it, of the final buffers of their sources; the block returned is the
\* buffer of the last node of the order.
C6_MixedInput ==
    (GraphRun /\ sortedNodeIds # <<>>) =>
        /\ DOMAIN run.handed = { n \in OrderIds : nodes[n].enabled }
        /\ \A n \in DOMAIN run.handed :
               run.handed[n] =
                   (IF n = Head(sortedNodeIds) THEN run.in ELSE 0)
                       + WeightedInputs(1, n, run.finalBuf)
        /\ run.out = run.finalBuf[LastId]

\* An enabled node fed by two connections, one of them of weight 2, from a
\* source whose buffer is not silent.
C6_Witness ==
    /\ GraphRun
    /\ \E n \in DOMAIN run.handed :
           \E i \in DOMAIN connections, j \in DOMAIN connections :
               /\ i # j
               /\ connections[i].destNodeId = n
               /\ connections[j].destNodeId = n
               /\ connections[j].weight = 2
               /\ run.finalBuf[connections[j].sourceNodeId] # 0
               /\ run.handed[n] # 0

\* C7: processGraph hands no block to a node whose isEnabled() is false, and
\* process() called on a node that is disabled (isEnabled() false or its
\* <node>_enabled parameter below 0.5) leaves the block and the node's
\* internal state as they were.
C7_DisabledUntouched ==
    /\ GraphRun => \A n \in DOMAIN run.handed : nodes[n].enabled
    /\ (NodeRun /\ (~run.before.enabled \/ run.before.type \in run.off)) =>
           (run.out = run.in /\ solo = run.before)

\* process() was called on an enabled node whose <node>_enabled parameter
\* is below 0.5 and whose DSP has not run yet.
C7_Witness ==
    /\ NodeRun
    /\ run.before.enabled
    /\ run.before.type \in run.off
    /\ ~run.before.touched

---------------------------------------------------------------------------
(* Claims on MacroEngine *)

MacroRun == run.valid /\ run.kind = "macro"

AllMappings ==
    { <<m, i>> \in MacroIndices \X (1 .. MaxMappings) : i <= Len(slots[m]) }

\* No other mapping of any slot writes the destination of slots[m][i].
SoleWriter(m, i) ==
    \A other \in AllMappings :
        slots[other[1]][other[2]].paramID = slots[m][i].paramID
            => other = <<m, i>>

\* C8: once MacroEngine::process has run, every curve-1 mapping of a macro
\* that holds 1.0 has its destination parameter at the mapping's rangeMax,
\* and every curve-1 mapping of a macro that holds 0.0 has it at rangeMin,
\* whatever the engine's history (fresh engine, mapping added after the
\* macro last changed).
C8_MacroFanOut ==
    MacroRun =>
        \A mi \in AllMappings :
            LET m == mi[1]
                mapping == slots[m][mi[2]]
            IN (mapping.curve = FloatOne /\ SoleWriter(m, mi[2])) =>
                   /\ apvts[MacroID(m)] = FloatOne
                          => apvts[mapping.paramID] = mapping.rangeMax
                   /\ apvts[MacroID(m)] = 0
                          => apvts[mapping.paramID] = mapping.rangeMin

MacroDiffers(m) ==
    Abs(run.before.apvts[MacroID(m)] - run.before.last[m]) >= Epsilon

\* C9: MacroEngine::process writes a parameter through macro m only in a
\* block where m's value differs by at least 1e-6 from the value recorded at
\* m's previous write, and a block in which no macro differs so writes no
\* parameter at all: the store is left as the user or modulation set it.
C9_WritesOnlyOnChange ==
    MacroRun =>
        /\ \A k \in DOMAIN run.writes : MacroDiffers(run.writes[k].macro)
        /\ (\A m \in MacroIndices : ~MacroDiffers(m)) =>
               (run.writes = <<>> /\ apvts = run.before.apvts)

\* A block in which a mapped macro sits half an epsilon away from its
\* recorded value and the destination, edited since the macro's last write,
\* keeps the edit.
C9_Witness ==
    /\ MacroRun
    /\ run.writes = <<>>
    /\ \E mi \in AllMappings :
           LET m == mi[1]
               mapping == slots[m][mi[2]]
           IN /\ run.before.apvts[MacroID(m)] # run.before.last[m]
              /\ run.before.last[m] = FloatOne
              /\ apvts[mapping.paramID] = Half
              /\ mappingTarget(mapping, FloatOne) # Half

---------------------------------------------------------------------------
(* Claims on ModulationMatrix *)

ModRun == run.valid /\ run.kind = "mod"

RoutesTo(id) ==
    { i \in DOMAIN routes :
          routes[i].paramID = id /\ routes[i].sourceIndex < Len(sources) }

RECURSIVE SumOfContributions(_)
SumOfContributions(S) ==
    IF S = {} THEN 0
    ELSE LET i == CHOOSE i \in S : TRUE
         IN routeContribution(sources, routes[i]) + SumOfContributions(S \ {i})

\* C10: after one ModulationMatrix::process call, a parameter targeted by
\* two routes holds clamp(previous value + the sum of the two routes'
\* contributions, 0, 1), whatever the order of the two routes.
C10_ModulationAdditivity ==
    ModRun =>
        \A id \in DestIDs :
            Cardinality(RoutesTo(id)) = 2 =>
                getValue(apvts, id) =
                    jlimit(0, FloatOne,
                           getValue(run.before.apvts, id)
                               + SumOfContributions(RoutesTo(id)))

\* C11: after every ModulationMatrix::process call the phase of each
\* non-envelope source lies in [0, 1) and is the previous phase advanced by
\* rate x blockDuration modulo 1; the phase of an envelope source is as it
\* was.
C11_PhaseWraps ==
    ModRun =>
        \A i \in DOMAIN sources :
            LET was == run.before.sources[i]
                dt == blockDuration(run.numSamples, DefaultSampleRate)
            IN IF was.type = "ENVELOPE"
               THEN sources[i].phase = was.phase
               ELSE /\ 0 <= sources[i].phase
                    /\ sources[i].phase < FloatOne
                    /\ sources[i].phase
                           = (was.phase + FMul(was.rate, dt)) % FloatOne

\* C12: an ENVELOPE source follows idle -> attack -> decay -> sustain ->
\* release -> idle. A process call never moves a stage off that cycle, and
\* a source that entered a block in ENV_ATTACK has advanced out of
\* ENV_ATTACK once a block at least as long as its attack time is processed.
C12_EnvelopeStages ==
    ModRun =>
        \A i \in DOMAIN sources :
            LET was == run.before.sources[i]
                dt == blockDuration(run.numSamples, DefaultSampleRate)
            IN was.type = "ENVELOPE" =>
                   /\ sources[i].envStage \in EnvStages
                   /\ (was.envStage = "ENV_ATTACK" /\ was.attack <= dt)
                          => sources[i].envStage # "ENV_ATTACK"


---------------------------------------------------------------------------
(* Claims on the two threads *)

\* C13: process, running while the control thread calls addSource, addRoute
\* or clearAll, never reads the source or route vector during a mutation of
\* it, never follows an iterator a mutation has invalidated, and never
\* indexes a source that clearAll has removed.
C13_ConsistentSnapshot ==
    fault \notin {"data_race", "dangling_iterator", "out_of_range"}

---------------------------------------------------------------------------
(* ModuleGraph when the message thread edits the graph while the audio     *)
(* thread calls processGraph. The class has no lock and no atomic swap, so *)
(* processGraph may run between any two statements of an edit: after the   *)
(* containers were changed (part_002:121-122, 129-136, 142, 148-153),      *)
(* after sortedNodeIds.clear() (251) and after each push_back (255).       *)

EditPhases == {"none", "containers", "rebuild"}

noEditFrame ==
    UNCHANGED <<solo, paramOff, fault, controlVars, audio, ctl, saved,
                slotMeta, nodeVars>>

\* The statements of an edit before its call of rebuildTopologicalSort: the
\* containers are those of the finished edit g, the order is still the old one.
EditBegins(g) ==
    /\ editing = "none"
    /\ Becomes([g EXCEPT !.sortedNodeIds = sortedNodeIds])
    /\ editing' = "containers"
    /\ Forget
    /\ noEditFrame

\* part_002:251
EditClearsOrder ==
    /\ editing = "containers"
    /\ sortedNodeIds' = <<>>
    /\ editing' = "rebuild"
    /\ UNCHANGED <<nodes, nodeBuffers, connections, nextNodeId, run>>
    /\ noEditFrame

\* part_002:252-259: one more id of the order is pushed.
EditPushes ==
    LET order == rebuildTopologicalSort(nodes, connections)
    IN /\ editing = "rebuild"
       /\ Len(sortedNodeIds) < Len(order)
       /\ sortedNodeIds' = SubSeq(order, 1, Len(sortedNodeIds) + 1)
       /\ UNCHANGED <<nodes, nodeBuffers, connections, nextNodeId, run, editing>>
       /\ noEditFrame

\* The queue is empty: rebuildTopologicalSort and the edit return.
EditEnds ==
    /\ editing = "rebuild"
    /\ sortedNodeIds = rebuildTopologicalSort(nodes, connections)
    /\ editing' = "none"
    /\ UNCHANGED <<graphVars, run>>
    /\ noEditFrame

NextGraphRace ==
    \/ /\ Alive
       /\ nextNodeId < FirstNewId + MaxNewNodes
       /\ \E t \in AddTypes : EditBegins(addNode(CurrentGraph, t))
    \/ Alive /\ \E id \in IdInputs : EditBegins(removeNode(CurrentGraph, id))
    \/ /\ Alive
       /\ Len(connections) < MaxConns
       /\ \E s \in IdInputs, d \in IdInputs :
              EditBegins(addConnection(CurrentGraph, NodeConnection(s, d, 1)))
    \/ Alive /\ \E s \in IdInputs, d \in IdInputs :
                    EditBegins(removeConnection(CurrentGraph, s, d))
    \/ Alive /\ EditClearsOrder
    \/ Alive /\ EditPushes
    \/ Alive /\ EditEnds
    \/ Alive /\ editing = "none" /\ CallPrepare
    \/ Alive /\ \E x \in BlockInputs : CallProcessGraph(x)

SpecGraphRace == Init /\ [][NextGraphRace]_vars

\* C14: a structural edit and processGraph exclude each other: from the first
\* statement of addNode, removeNode, addConnection or removeConnection until
\* its rebuildTopologicalSort has returned, no processGraph call takes place,
\* so none sees the half-built order or an id whose node or buffer is gone.
C14_EditsExcludeProcessGraph ==
    [][editing # "none" => (run' = run /\ fault' = fault)]_vars

---------------------------------------------------------------------------
(* Saving and restoring: juce::ValueTree as [type, props, children]; a     *)
(* property holds the juce::var it was set to.                             *)

ValueTree(type, props, children) ==
    [type |-> type, props |-> props, children |-> children]

\* part_001:44-50, and the "id" property added at part_002:181.
nodeToValueTree(id, node) ==
    ValueTree("Node", [type |-> node.type, enabled |-> node.enabled, id |-> id],
              <<>>)

\* part_002:186-189: the two channel members are not written.
connToValueTree(conn) ==
    ValueTree("Connection",
              [src |-> conn.sourceNodeId, dst |-> conn.destNodeId,
               w |-> conn.weight], <<>>)

\* part_002:175-193: the nodes in the order of the map, then the connections.
graphToValueTree(g) ==
    LET ids == KeysAscending(DOMAIN g.nodes)
    IN ValueTree("ModuleGraph", << >>,
           [i \in 1 .. Len(ids) |-> nodeToValueTree(ids[i], g.nodes[ids[i]])]
           \o [i \in 1 .. Len(g.connections) |->
                  connToValueTree(g.connections[i])])

\* part_002:195-199: the body holds two comments and no statement.
graphFromValueTree(g, tree) == g

CallGraphToValueTree ==
    /\ saved' = [kind |-> "graph", tree |-> graphToValueTree(CurrentGraph),
                 of |-> CurrentGraph]
    /\ UNCHANGED <<threadVars, slotMeta, nodeVars, graphVars, audioVars,
                   controlVars>>

CallGraphFromValueTree ==
    /\ saved.kind = "graph"
    /\ Becomes(graphFromValueTree(CurrentGraph, saved.tree))
    /\ run' = [valid |-> TRUE, kind |-> "graphRestore", of |-> saved.of]
    /\ UNCHANGED <<restVars, solo, paramOff, fault, controlVars>>

\* ---- a graph that is edited, saved and restored ----
NextGraphPreset ==
    \/ \E t \in AddTypes : CallAddNode(t)
    \/ \E id \in IdInputs : CallRemoveNode(id)
    \/ \E e \in BOOLEAN : CallSetEnabled(0, e)
    \/ CallGraphToValueTree

    \/ CallGraphFromValueTree

SpecGraphPreset == Init /\ [][NextGraphPreset]_vars

ConnectionSet(conns) == { conns[i] : i \in DOMAIN conns }

\* C15: after fromValueTree of a tree that toValueTree produced of a graph g,
\* the restoring graph has the node ids, types and enabled flags of g and
\* the connection set of g, channels and weights included.
C15_GraphRoundTrip ==
    (run.valid /\ run.kind = "graphRestore") =>
        /\ nodes = run.of.nodes
        /\ ConnectionSet(connections) = ConnectionSet(run.of.connections)

---------------------------------------------------------------------------
(* MacroEngine::toValueTree / fromValueTree. A property value is a         *)
(* juce::var: the type it was constructed with and the value.              *)

var(t, v) == [t |-> t, v |-> v]

\* ValueTree::getProperty: a property that is not set reads as a void var.
getProperty(tree, name) ==
    IF name \in DOMAIN tree.props THEN tree.props[name] ELSE var("void", 0)

\* var::toString, operator float (through double), operator bool.
castTo(t, x) ==
    CASE x.t = t -> x.v
      [] t = "String" -> ""
      [] t = "double" -> 0
      [] OTHER -> FALSE

\* Colour::toDisplayString (true): the eight hexadecimal digits of ARGB.
toDisplayString(colour) ==
    [k \in 1 .. 8 |-> IF k % 2 = 1 THEN colour[(k + 1) \div 2] \div 16
                      ELSE colour[k \div 2] % 16]

\* Colour::fromString: the digits parsed back, two to a byte.
fromString(digits) ==
    LET n == Len(digits)
        Digit(k) == IF k + n > 8 THEN digits[k + n - 8] ELSE 0
    IN [b \in 1 .. 4 |-> 16 * Digit(2 * b - 1) + Digit(2 * b)]

\* part_000:122-127
mappingToValueTree(mp) ==
    ValueTree("Mapping",
              [param |-> var("String", mp.paramID),
               min |-> var("double", mp.rangeMin),
               max |-> var("double", mp.rangeMax),
               curve |-> var("double", mp.curve),
               bipolar |-> var("bool", mp.bipolar)], <<>>)

\* part_000:146-151
mappingFromValueTree(mp) ==
    [paramID |-> castTo("String", getProperty(mp, "param")),
     rangeMin |-> castTo("double", getProperty(mp, "min")),
     rangeMax |-> castTo("double", getProperty(mp, "max")),
     curve |-> castTo("double", getProperty(mp, "curve")),
     bipolar |-> castTo("bool", getProperty(mp, "bipolar"))]

\* part_000:112-133: one "Macro" child per slot, one "Mapping" child per mapping.
macroToValueTree(slts, meta) ==
    ValueTree("MacroEngine", << >>,
        [k \in 1 .. NUM_MACROS |->
            ValueTree("Macro",
                [name |-> var("String", meta[k - 1].name),
                 colour |-> var("String", toDisplayString(meta[k - 1].colour))],
                [c \in 1 .. Len(slts[k - 1]) |->
                    mappingToValueTree(slts[k - 1][c])])])

\* The restore that pushes onto the mappings the engine already holds.
macroFromValueTreeKeeping(slts, meta, tree) ==
    LET Restored(m) == m < NUM_MACROS /\ m < Len(tree.children)
        slot(m) == tree.children[m + 1]
    IN [slots |->
            [m \in MacroIndices |->
                IF Restored(m)
                THEN slts[m] \o
                     [c \in 1 .. Len(slot(m).children) |->
                         mappingFromValueTree(slot(m).children[c])]
                ELSE slts[m]],
        meta |->
            [m \in MacroIndices |->
                IF Restored(m)
                THEN [name |-> castTo("String", getProperty(slot(m), "name")),
                      colour |-> fromString(castTo("String",
                                     getProperty(slot(m), "colour")))]
                ELSE meta[m]]]

\* part_000:135-155: the slots the tree has children for get the name, the
\* colour and, after mappings.clear(), the mappings of their child.
macroFromValueTree(slts, meta, tree) ==
    LET Restored(m) == m < NUM_MACROS /\ m < Len(tree.children)
        slot(m) == tree.children[m + 1]
    IN [slots |->
            [m \in MacroIndices |->
                IF Restored(m)
                THEN [c \in 1 .. Len(slot(m).children) |->
                         mappingFromValueTree(slot(m).children[c])]
                ELSE slts[m]],
        meta |->
            [m \in MacroIndices |->
                IF Restored(m)
                THEN [name |-> castTo("String", getProperty(slot(m), "name")),
                      colour |-> fromString(castTo("String",
                                     getProperty(slot(m), "colour")))]
                ELSE meta[m]]]

macroFrame ==
    UNCHANGED <<threadVars, nodeVars, graphVars, solo, paramOff, fault, apvts,
                lastMacroValue, sources, routes>>

CallSetMacroName(i, n) ==
    /\ slotMeta' = setMacroName(slotMeta, i, n)
    /\ Forget
    /\ UNCHANGED <<slots, saved>>
    /\ macroFrame

CallMacroToValueTree ==
    /\ saved' = [kind |-> "macro", tree |-> macroToValueTree(slots, slotMeta),
                 of |-> [slots |-> slots, meta |-> slotMeta]]
    /\ UNCHANGED <<slots, slotMeta, run>>
    /\ macroFrame

CallMacroFromValueTree ==
    LET r == macroFromValueTree(slots, slotMeta, saved.tree)
    IN /\ saved.kind = "macro"
       /\ slots' = r.slots
       /\ slotMeta' = r.meta
       /\ run' = [valid |-> TRUE, kind |-> "macroRestore", of |-> saved.of,
                  before |-> slots]
       /\ UNCHANGED saved
       /\ macroFrame

\* The mappings and the name the editor sets before and after a save.
PresetMappings ==
    { MacroMapping("mix", Quarter, 3 * Quarter, FloatOne),
      [MacroMapping("master_gain", Half, 2 * FloatOne, 2 * FloatOne)
           EXCEPT !.bipolar = TRUE] }
PresetNames == {"Macro 1", "Sweep"}

\* ---- macro slots that are edited, saved and restored ----
NextMacroPreset ==
    \/ /\ mappingCount(slots, 0) < MaxMappings
       /\ \E m \in DrivenMacros, mp \in PresetMappings : CallAddMapping(m, mp)
    \/ \E m \in DrivenMacros : slots[m] # <<>> /\ CallClearMappings(m)
    \/ \E n \in PresetNames : CallSetMacroName(0, n)
    \/ CallMacroToValueTree
    \/ CallMacroFromValueTree

SpecMacroPreset == Init /\ [][NextMacroPreset]_vars

MacroRestored == run.valid /\ run.kind = "macroRestore"

\* C16: after fromValueTree of a tree that toValueTree produced of an engine,
\* every one of the 8 slots of the restoring engine has the name and, in
\* order, the mappings (paramID, rangeMin, rangeMax, curve, bipolar) of the
\* saved engine, whatever mappings it held before.
C16_MacroRoundTrip ==
    MacroRestored =>
        \A m \in 0 .. (NUM_MACROS - 1) :
            /\ slotMeta[m].name = run.of.meta[m].name
            /\ slots[m] = run.of.slots[m]

\* A restore into an engine that held other mappings than the saved ones,
\* of a tree with a bipolar mapping and a changed name in it.
C16_Witness ==
    /\ MacroRestored
    /\ \E m \in DrivenMacros :
           /\ run.before[m] # <<>>
           /\ run.before[m] # run.of.slots[m]
    /\ \E m \in DrivenMacros, c \in 1 .. MaxMappings :
           c <= Len(slots[m]) /\ slots[m][c].bipolar
    /\ slotMeta[0].name = "Sweep"

---------------------------------------------------------------------------
(* One FreezeCapture node that is prepared, fed, reset and fed again *)

freezeFrame ==
    UNCHANGED <<threadVars, saved, slotMeta, mutation, delay, moreVars,
                graphVars, solo,
                paramOff, fault, controlVars>>

CallFreezePrepare ==
    /\ capture' = freezePrepare(capture)
    /\ Forget
    /\ freezeFrame

CallFreezeReset ==
    /\ capture' = freezeReset(capture)
    /\ run' = [valid |-> TRUE, kind |-> "freezeReset", quiet |-> TRUE]
    /\ freezeFrame

FreezeRun == run.valid /\ run.kind \in {"freeze", "freezeReset"}

\* process() after prepare(); quiet: reset() was called and every block fed
\* since then, this one included, was silence.
CallFreezeProcess(p, x) ==
    LET r == freezeProcess(capture, p, x)
    IN /\ capture.captureBuf # << >>
       /\ capture' = r.node
       /\ run' = [valid |-> TRUE, kind |-> "freeze", in |-> x, out |-> r.out,
                  on |-> p.on, quiet |-> FreezeRun /\ run.quiet /\ x = 0,
                  frozen |-> p.frozen, captureLen |-> p.captureLen,
                  reads |-> r.reads, wrote |-> r.wrote, before |-> capture]
       /\ freezeFrame

FreezeParams ==
    [on : BOOLEAN, frozen : BOOLEAN, captureLen : 1 .. (CAPTURE_SIZE - 1),
     mix : {0, FloatOne}, ratio : {FloatOne}]


NextFreeze ==
    \/ CallFreezePrepare
    \/ CallFreezeReset
    \/ \E p \in FreezeParams, x \in BlockInputs : CallFreezeProcess(p, x)

SpecFreeze == Init /\ [][NextFreeze]_vars

\* C17: a node that was reset and has been fed nothing but silence since
\* puts out silence: no sample captured before the reset is read back.
C17_ResetLeavesNoRemnant ==
    (FreezeRun /\ run.kind = "freeze" /\ run.on /\ run.quiet) => run.out = 0

---------------------------------------------------------------------------
(* The scratch buffers under prepare, addNode, removeNode, setEnabled and  *)
(* processGraph                                                            *)


NextBuffers ==
    \/ Alive /\ \E t \in AddTypes : CallAddNode(t)
    \/ Alive /\ \E id \in IdInputs : CallRemoveNode(id)
    \/ Alive /\ CallPrepare
    \/ Alive /\ \E id \in IdInputs, e \in BOOLEAN : CallSetEnabled(id, e)
    \/ Alive /\ \E x \in BlockInputs : CallProcessGraph(x)

SpecBuffers == Init /\ [][NextBuffers]_vars

EveryNodeHasBuffer == DOMAIN nodes \subseteq nodeBuffers

\* C18: once prepare has given every node its sized scratch buffer, every
\* node has one after each further prepare, addNode, removeNode and
\* processGraph call, so processGraph never works on a buffer that was not
\* allocated for the session.
C18_BuffersFollowNodes ==
    [][EveryNodeHasBuffer => (EveryNodeHasBuffer' /\ fault' # "no_buffer")]_vars

---------------------------------------------------------------------------
(* One MutationEngine node and the parameters it reads and writes *)

MaxRounds == 1       \* process calls that reach the mutation loop

MutationNode == NewNode("mutation_engine")
TargetIDs == { mutateTargets[i] : i \in DOMAIN mutateTargets }

\* The draws of one call: at most two targets pass the test of line 359;
\* their second draw is 0.0 or 0.75.
DrawInputs ==
    { d \in [TargetIDs -> [pass : BOOLEAN, r : {0, 3 * Quarter}]] :
        /\ Cardinality({ id \in TargetIDs : d[id].pass }) <= 2
        /\ \A id \in TargetIDs : ~d[id].pass => d[id].r = 0 }


\* Block lengths: a quarter and a half second at 44.1 kHz.
MutationBlocks == {11025, 22050}

mutationFrame ==
    UNCHANGED <<threadVars, saved, slotMeta, capture, delay, moreVars,
                graphVars, solo,
                fault, lastMacroValue, slots, sources, routes>>

CallMutationReset ==
    /\ mutation' = mutationReset(mutation)
    /\ Forget
    /\ UNCHANGED <<apvts, paramOff>>
    /\ mutationFrame

CallMutationProcess(draws, numSamples, x) ==
    LET r == mutationProcess(mutation, MutationNode, paramOff, apvts,
                             DefaultSampleRate, draws, numSamples, x)
    IN /\ mutation.rounds < MaxRounds
       /\ mutation' = r.node
       /\ apvts' = r.store
       /\ run' = [valid |-> TRUE, kind |-> "mutation", in |-> x,
                  out |-> r.out, before |-> apvts, writes |-> r.writes]
       /\ UNCHANGED paramOff
       /\ mutationFrame

\* The host moves the amount knob and two of the targets to the ends of
\* their ranges, and switches me_enabled.
HostSetsMutationParam(id, normalised) ==
    /\ apvts' = setValueNotifyingHost(apvts, id, normalised)
    /\ Forget
    /\ UNCHANGED <<mutation, paramOff>>
    /\ mutationFrame

HostSetsMutationEnabled(on) ==
    /\ paramOff' = IF on THEN paramOff \ {"mutation_engine"}
                   ELSE paramOff \cup {"mutation_engine"}
    /\ Forget
    /\ UNCHANGED <<mutation, apvts>>
    /\ mutationFrame

NextMutation ==
    \/ CallMutationReset
    \/ \E d \in DrawInputs, n \in MutationBlocks, x \in BlockInputs :
           CallMutationProcess(d, n, x)
    \/ \E id \in {"me_amount", "pr_drift", "gf_curve"},
          v \in {0, FloatOne} : HostSetsMutationParam(id, v)
    \/ \E on \in BOOLEAN : HostSetsMutationEnabled(on)

SpecMutation == Init /\ [][NextMutation]_vars

MutationRun == run.valid /\ run.kind = "mutation"

MutationBound == FMul(run.before["me_amount"], 15 * (FloatOne \div 100))

\* C19: a MutationEngine::process call writes none but the seven targets,
\* moves the normalized value of each by at most 0.15 x amount and keeps it
\* within [0, 1], leaves every other parameter and the audio block as they
\* were, and changes no parameter at all when amount is 0.
C19_MutationIsBounded ==
    MutationRun =>
        /\ \A i \in DOMAIN run.writes : run.writes[i] \in TargetIDs
        /\ \A id \in DOMAIN apvts \ TargetIDs : apvts[id] = run.before[id]
        /\ \A id \in TargetIDs :
               LET was == getValue(run.before, id)
                   now == getValue(apvts, id)
               IN /\ 0 <= now /\ now <= FloatOne
                  /\ Abs(now - was) <= MutationBound
        /\ run.out = run.in
        /\ run.before["me_amount"] = 0 => apvts = run.before

\* A call that wrote two targets, one of them moved by the full bound and
\* one held at the end of its range by the clamp.
C19_Witness ==
    /\ MutationRun
    /\ Len(run.writes) = 2
    /\ MutationBound > 0
    /\ \E id \in TargetIDs :
           Abs(getValue(apvts, id) - getValue(run.before, id)) = MutationBound
    /\ \E id \in TargetIDs :
           /\ \E i \in DOMAIN run.writes : run.writes[i] = id
           /\ getValue(apvts, id) = 0
           /\ getValue(run.before, id) = 0

\* A call with amount 0 that wrote targets and changed nothing.
C19_WitnessZero ==
    /\ MutationRun
    /\ run.before["me_amount"] = 0
    /\ run.writes # << >>

---------------------------------------------------------------------------
(* One PitchSmearDelay node: prepare, the host's knobs, process *)

MaxSamples == 2048   \* samples processed after a prepare

SampleRates == {DefaultSampleRate, 48000}
DelayNode == NewNode("pitch_smear_delay")

delayFrame ==
    UNCHANGED <<threadVars, saved, slotMeta, capture, mutation, moreVars,
                graphVars, solo, paramOff, lastMacroValue, slots, sources,
                routes>>


CallDelayPrepare(sampleRate) ==
    /\ delay' = delayPrepare(delay, sampleRate)
    /\ Forget
    /\ UNCHANGED <<apvts, fault>>
    /\ delayFrame

\* The host turns psd_time or psd_smear to an end of its range.
HostSetsDelayParam(id, normalised) ==
    /\ apvts' = setValueNotifyingHost(apvts, id, normalised)
    /\ Forget
    /\ UNCHANGED <<delay, fault>>
    /\ delayFrame

\* process() after prepare() on a block of one sample. An index outside
\* the vector makes the call undefined.
CallDelayProcess ==
    LET r == delayProcess(delay, apvts)
        InBuffer(i) == 0 <= i /\ i < delay.bufLen
    IN /\ delay.bufLen > 0
       /\ delay.writePos < MaxSamples
       /\ ~bypassed(DelayNode, paramOff)
       /\ run' = [valid |-> TRUE, kind |-> "delay", delayLen |-> r.delayLen,
                  readI |-> r.readI, readNext |-> r.readNext,
                  writeI |-> r.writeI, bufLen |-> r.node.bufLen]
       /\ IF InBuffer(r.readI) /\ InBuffer(r.readNext) /\ InBuffer(r.writeI)
          THEN delay' = r.node /\ fault' = fault
          ELSE delay' = delay /\ fault' = "out_of_range"
       /\ UNCHANGED apvts
       /\ delayFrame

NextDelay ==
    \/ Alive /\ \E sr \in SampleRates : CallDelayPrepare(sr)
    \/ Alive /\ \E id \in {"psd_time", "psd_smear"}, v \in {0, FloatOne} :
                    HostSetsDelayParam(id, v)
    \/ Alive /\ CallDelayProcess

SpecDelay == Init /\ [][NextDelay]_vars

\* C20: in every PitchSmearDelay::process call the delay length is within
\* [1, MAX_DELAY_SAMPLES - 1], the read index, the read index after it and
\* the write index are within [0, MAX_DELAY_SAMPLES), and the buffer keeps
\* its MAX_DELAY_SAMPLES cells.
C20_DelayIndicesInRange ==
    (run.valid /\ run.kind = "delay") =>
        /\ 1 <= run.delayLen /\ run.delayLen <= MAX_DELAY_SAMPLES - 1
        /\ \A i \in {run.readI, run.readNext, run.writeI} :
               0 <= i /\ i < MAX_DELAY_SAMPLES
        /\ run.bufLen = MAX_DELAY_SAMPLES

---------------------------------------------------------------------------
(* The dry/wet stage of the nodes that read a <node>_mix parameter. The    *)
(* wet sample is what the lines before the last setSample computed from    *)
(* the block and the node's history; here it is an input of the call.      *)

MixTypes ==
    {"portal_reverb", "spectral_warp_chorus", "pitch_smear_delay",
     "plasma_distortion", "harmonic_808_inflator", "texture_generator",
     "freeze_capture"}

\* The last setSample of process() on the sample dry; p: [mix, frozen].
\* texture_generator scales its mix by 0.3f and adds the filtered noise to
\* the signal (part_003:196, 213); freeze_capture leaves the block alone in
\* capture mode (part_003:273-279); the others end in eqpCrossfade.
mixStage(type, p, dry, wet) ==
    CASE type = "texture_generator" ->
             dry + FMul(wet, FMul(p.mix, (3 * FloatOne) \div 10))
      [] type = "freeze_capture" ->
             (IF p.frozen THEN eqpCrossfade(dry, wet, p.mix) ELSE dry)
      [] OTHER -> eqpCrossfade(dry, wet, p.mix)

mixProcess(node, off, p, dry, wet) ==
    IF bypassed(node, off) THEN dry ELSE mixStage(node.type, p, dry, wet)

CallMixProcess(p, dry, wet) ==
    /\ solo' = processState(solo, paramOff)
    /\ run' = [valid |-> TRUE, kind |-> "mix", type |-> solo.type,
               on |-> ~bypassed(solo, paramOff), mix |-> p.mix,
               frozen |-> p.frozen, dry |-> dry, wet |-> wet,
               out |-> mixProcess(solo, paramOff, p, dry, wet)]
    /\ UNCHANGED <<restVars, graphVars, paramOff, fault, controlVars>>

MixParams == [mix : {0, Half, FloatOne}, frozen : BOOLEAN]
MixSamples == {0, Half, -FloatOne}

InitMix ==
    /\ InitGraph
    /\ solo \in { NewSolo(t) : t \in MixTypes }

NextMix ==
    \/ \E e \in BOOLEAN : SoloSetEnabled(e)
    \/ \E on \in BOOLEAN : SetEnabledParam(solo.type, on)
    \/ \E p \in MixParams, dry \in MixSamples, wet \in MixSamples :
           CallMixProcess(p, dry, wet)

SpecMix == InitMix /\ [][NextMix]_vars

MixRun == run.valid /\ run.kind = "mix"

\* C21: an enabled process() of a node with a mix parameter puts out the
\* input sample at mix = 0 and the node's wet sample at mix = 1.
C21_MixLaw ==
    (MixRun /\ run.on) =>
        /\ run.mix = 0 => run.out = run.dry
        /\ run.mix = FloatOne => run.out = run.wet

---------------------------------------------------------------------------
(* One SpectralWarpChorus node fed a stream that is cut into blocks *)

chorusFrame ==
    UNCHANGED <<threadVars, saved, slotMeta, capture, mutation, delay, reverb,
                targetGraph, lateVars,
                graphVars, solo, paramOff, fault, controlVars>>

Silence == [k \in 1 .. FFT_SIZE |-> 0]

\* heard: the last FFT_SIZE samples the node has processed since it was
\* cleared; since: how many of them came after the last frame.
ChorusCleared ==
    [valid |-> TRUE, kind |-> "chorus", heard |-> Silence, since |-> 0,
     frames |-> << >>]

CallChorusPrepare ==
    /\ chorus' = chorusPrepare(chorus)
    /\ run' = ChorusCleared
    /\ chorusFrame

CallChorusReset ==
    /\ chorus.inFifo # << >>
    /\ chorus' = chorusReset(chorus)
    /\ run' = ChorusCleared
    /\ chorusFrame

ChorusRun == run.valid /\ run.kind = "chorus"

\* process() after prepare(). Each frame of the call is recorded with the
\* FFT_SIZE samples that preceded it in the stream and with its distance,
\* in samples, from the frame before it.
CallChorusProcess(on, block) ==
    LET r == chorusProcess(chorus, on, block)
        stream == run.heard \o (IF on THEN block ELSE << >>)
        n == Len(r.frames)
        seen == [k \in 1 .. n |->
                    [data |-> r.frames[k].data,
                     recent |-> SubSeq(stream, r.frames[k].at + 1,
                                       r.frames[k].at + FFT_SIZE),
                     hop |-> IF k = 1 THEN run.since + r.frames[1].at
                             ELSE r.frames[k].at - r.frames[k - 1].at]]
    IN /\ chorus.inFifo # << >>
       /\ ChorusRun
       /\ chorus' = r.node
       /\ run' = [valid |-> TRUE, kind |-> "chorus",
                  heard |-> SubSeq(stream, Len(stream) - FFT_SIZE + 1,
                                   Len(stream)),
                  since |-> IF n = 0
                            THEN run.since + (Len(stream) - FFT_SIZE)
                            ELSE Len(block) - r.frames[n].at,
                  frames |-> seen]
       /\ chorusFrame

MaxBlock == 3
ChorusSamples == {1, 2}
ChorusBlocks ==
    UNION { [1 .. n -> ChorusSamples] : n \in 1 .. MaxBlock }

NextChorus ==
    \/ CallChorusPrepare
    \/ CallChorusReset
    \/ \E on \in BOOLEAN, block \in ChorusBlocks : CallChorusProcess(on, block)

SpecChorus == Init /\ [][NextChorus]_vars

\* C22: every frame is the FFT_SIZE most recent input samples in the order
\* they arrived, and a frame is taken every HOP_SIZE samples, however the
\* stream is cut into blocks.
C22_FrameIsRecentInput ==
    ChorusRun =>
        \A k \in DOMAIN run.frames :
            /\ run.frames[k].data = run.frames[k].recent
            /\ run.frames[k].hop = HOP_SIZE

---------------------------------------------------------------------------
(* One PortalReverb node: prepare, the shimmer knob, process *)

ReverbNode == NewNode("portal_reverb")

reverbFrame ==
    UNCHANGED <<threadVars, saved, slotMeta, capture, mutation, delay, chorus,
                targetGraph, lateVars,
                graphVars, solo, paramOff, fault, lastMacroValue, slots,
                sources, routes>>

CallReverbPrepare ==
    /\ reverb' = reverbPrepare(reverb)
    /\ Forget
    /\ UNCHANGED apvts
    /\ reverbFrame

\* The host turns pr_shimmer.
HostSetsShimmer(normalised) ==
    /\ apvts' = setValueNotifyingHost(apvts, "pr_shimmer", normalised)
    /\ Forget
    /\ UNCHANGED reverb
    /\ reverbFrame

\* process() after prepare() on a block of one sample.
CallReverbProcess ==
    /\ reverb.shimmerLen > 0
    /\ reverb' = reverbProcess(reverb, ~bypassed(ReverbNode, paramOff), apvts)
    /\ run' = [valid |-> TRUE, kind |-> "reverb",
               on |-> ~bypassed(ReverbNode, paramOff),
               shimmer |-> apvts["pr_shimmer"], before |-> reverb]
    /\ UNCHANGED apvts
    /\ reverbFrame

ShimmerValues == {0, FloatOne \div 5, FloatOne}

NextReverb ==
    \/ CallReverbPrepare
    \/ \E v \in ShimmerValues : HostSetsShimmer(v)
    \/ CallReverbProcess

SpecReverb == Init /\ [][NextReverb]_vars

ShimmerRun ==
    run.valid /\ run.kind = "reverb" /\ run.on
        /\ run.shimmer > FloatOne \div 1000

\* C23: while shimmer is active, one processed sample moves the shimmer read
\* position on by 2 and the shimmer write position by 1, both modulo the
\* length of the shimmer buffer.
C23_ShimmerReadsAtDoubleSpeed ==
    ShimmerRun =>
        /\ reverb.shimmerReadPos
               = (run.before.shimmerReadPos + 2) % reverb.shimmerLen
        /\ reverb.shimmerWritePos
               = (run.before.shimmerWritePos + 1) % reverb.shimmerLen

---------------------------------------------------------------------------
(* ModulationMatrix::process with sources that stand at zero *)

MaxZeroSources == 2
ZeroSourceInputs ==
    { ModSource(t, DefaultRate, 25 * FloatOne) :
          t \in {"LFO_SINE", "LFO_TRI", "LFO_SQUARE", "LFO_RANDOM", "ENVELOPE"} }
        \cup { ModSource("LFO_SQUARE", DefaultRate, 0) }

ZeroRouteInputs ==
    { ModRoute(s, "master_gain", a) :
          s \in 0 .. (MaxZeroSources - 1), a \in {FloatOne, -FloatOne} }

NextModZero ==

    \/ /\ Len(sources) < MaxZeroSources
       /\ \E s \in ZeroSourceInputs : CallAddSource(s)

    \/ Len(routes) < MaxRoutes /\ \E r \in ZeroRouteInputs : CallAddRoute(r)
    \/ (sources # <<>> \/ routes # <<>>) /\ CallClearAll
    \/ \E n \in BlockLengths : CallModProcess(n)

SpecModZero == Init /\ [][NextModZero]_vars

\* The routes process did not skip whose source, as ticked by the call, has
\* the value 0.
ZeroRoutes ==
    { i \in DOMAIN routes :
          /\ routes[i].sourceIndex < Len(sources)
          /\ computeSourceValue(sources[routes[i].sourceIndex + 1]) = 0 }

Without(rts, i) == SubSeq(rts, 1, i - 1) \o SubSeq(rts, i + 1, Len(rts))

\* C24: a route whose source value is 0 contributes nothing: every
\* parameter is, after process, what it would be had the route not been
\* there, whatever the amount of the route.
C24_ZeroSourceContributesNothing ==
    ModRun =>
        \A i \in ZeroRoutes :
            apvts = applyRoutes(run.before.apvts, sources, Without(routes, i), 1)

\* A block in which a route with a source at zero and the amount -1 or 1
\* shares its parameter with a route that moved it.
C24_Witness ==
    /\ ModRun
    /\ \E i \in ZeroRoutes, j \in DOMAIN routes :
           /\ j \notin ZeroRoutes
           /\ routes[j].sourceIndex < Len(sources)
           /\ routes[j].paramID = routes[i].paramID
           /\ apvts[routes[i].paramID] # run.before.apvts[routes[i].paramID]

---------------------------------------------------------------------------
(* Two graphs, each edited on its own, and morphTo from one to the other *)

targetFrame ==
    UNCHANGED <<threadVars, saved, slotMeta, capture, mutation, delay, chorus,
                reverb, lateVars, graphVars, solo, paramOff, fault,
                controlVars>>

TargetAddNode(type) ==
    /\ targetGraph.nextNodeId < FirstNewId + MaxNewNodes
    /\ targetGraph' = addNode(targetGraph, type)
    /\ Forget
    /\ targetFrame

TargetRemoveNode(nodeId) ==
    /\ targetGraph' = removeNode(targetGraph, nodeId)
    /\ Forget
    /\ targetFrame

TargetSetEnabled(nodeId, e) ==
    /\ nodeId \in DOMAIN targetGraph.nodes
    /\ targetGraph' = setEnabled(targetGraph, nodeId, e)
    /\ Forget
    /\ targetFrame

CallMorphTo(t) ==
    LET r == morphTo(CurrentGraph, targetGraph, t)
    IN /\ Becomes(r.graph)
       /\ targetGraph' = r.target
       /\ run' = [valid |-> TRUE, kind |-> "morph", t |-> t,
                  morphed |-> r.morphed,
                  before |-> [graph |-> CurrentGraph,
                              target |-> targetGraph]]
       /\ UNCHANGED <<threadVars, saved, slotMeta, capture, mutation, delay,
                      chorus, reverb, lateVars, solo, paramOff, fault,
                      controlVars>>

MorphTimes == {0, Half, FloatOne}

NextMorph ==
    \/ \E t \in AddTypes : CallAddNode(t)
    \/ \E id \in IdInputs : CallRemoveNode(id)
    \/ \E id \in IdInputs, e \in BOOLEAN : CallSetEnabled(id, e)
    \/ \E t \in AddTypes : TargetAddNode(t)
    \/ \E id \in IdInputs : TargetRemoveNode(id)
    \/ \E id \in IdInputs, e \in BOOLEAN : TargetSetEnabled(id, e)
    \/ \E t \in MorphTimes : CallMorphTo(t)

SpecMorph == Init /\ [][NextMorph]_vars

MorphRun == run.valid /\ run.kind = "morph"

\* C25: morphTo calls morphFrom once on each node of this graph whose id the
\* target graph has too, and on no other; nodes, connections, enabled
\* flags and cached order of both graphs are as they were before the call.
C25_MorphKeepsStructure ==
    MorphRun =>
        /\ { run.morphed[k] : k \in DOMAIN run.morphed }
               = DOMAIN run.before.graph.nodes \cap DOMAIN run.before.target.nodes
        /\ Len(run.morphed)
               = Cardinality(DOMAIN nodes \cap DOMAIN targetGraph.nodes)
        /\ CurrentGraph = run.before.graph
        /\ targetGraph = run.before.target

\* A morph to the end (t = 1) between graphs that share a node with
\* different enabled flags and each have a node the other lacks.
C25_Witness ==
    /\ MorphRun
    /\ run.t = FloatOne
    /\ \E id \in DOMAIN nodes \cap DOMAIN targetGraph.nodes :
           nodes[id].enabled # targetGraph.nodes[id].enabled
    /\ DOMAIN nodes \ DOMAIN targetGraph.nodes # {}
    /\ DOMAIN targetGraph.nodes \ DOMAIN nodes # {}

---------------------------------------------------------------------------
(* One FreezeCapture node under its size and pitch knobs *)

\* (int) (fc_size * sampleRate), ratio = 2^(fc_pitch / 12) for a pitch of
\* -12, 0 and 12 semitones. The layout keeps fc_size at 0.01 s or more and
\* fc_pitch at 24 or less (PluginEditor.cpp:801-802), so the window is
\* never shorter than one step of the read position.
WindowSizes == {1, CAPTURE_SIZE - 1, CAPTURE_SIZE + 2}
PitchRatios == {Half, FloatOne, 2 * FloatOne}

CallFreezeProcessSized(on, frozen, sizeSamples, ratio, mix, x) ==
    /\ ratio <= captureLength(sizeSamples) * FloatOne
    /\ CallFreezeProcess([on |-> on, frozen |-> frozen,
                          captureLen |-> captureLength(sizeSamples),
                          mix |-> mix, ratio |-> ratio], x)

NextFreezeWindow ==
    \/ CallFreezePrepare
    \/ CallFreezeReset
    \/ \E on \in BOOLEAN, frozen \in BOOLEAN, n \in WindowSizes,
          ratio \in PitchRatios, mix \in {0, FloatOne}, x \in BlockInputs :
           CallFreezeProcessSized(on, frozen, n, ratio, mix, x)

SpecFreezeWindow == Init /\ [][NextFreezeWindow]_vars

FreezeBlock == FreezeRun /\ run.kind = "freeze" /\ run.on

\* C26: an enabled process() in capture mode stores the input sample at
\* writePos, moves writePos on by one modulo CAPTURE_SIZE and leaves the
\* block as it was; in freeze mode it writes neither captureBuf nor
\* writePos and reads only cells inside [0, captureLen), with captureLen
\* within [1, CAPTURE_SIZE - 1].
C26_CaptureAndFreezeWindow ==
    FreezeBlock =>
        IF ~run.frozen
        THEN /\ capture.captureBuf
                    = [run.before.captureBuf
                           EXCEPT ![run.before.writePos + 1] = run.in]
             /\ capture.writePos = (run.before.writePos + 1) % CAPTURE_SIZE
             /\ run.out = run.in
        ELSE /\ capture.captureBuf = run.before.captureBuf
             /\ capture.writePos = run.before.writePos
             /\ run.reads \subseteq 0 .. (run.captureLen - 1)
             /\ 1 <= run.captureLen /\ run.captureLen <= CAPTURE_SIZE - 1

\* A frozen block over the longest window, read between two cells of a
\* buffer that holds captured input.

C26_Witness ==
    /\ FreezeBlock
    /\ run.frozen
    /\ run.captureLen = CAPTURE_SIZE - 1
    /\ Cardinality(run.reads) = 2
    /\ capture.readPos % FloatOne # 0
    /\ \E k \in DOMAIN capture.captureBuf : capture.captureBuf[k] # 0

---------------------------------------------------------------------------
(* removeNode observed: the graph before the call is kept next to it *)

CallRemoveNodeObserved(nodeId) ==
    /\ Becomes(removeNode(CurrentGraph, nodeId))
    /\ run' = [valid |-> TRUE, kind |-> "remove", id |-> nodeId,
               before |-> CurrentGraph]
    /\ UNCHANGED <<restVars, solo, paramOff, fault, controlVars>>

NextRemove ==
    \/ \E t \in AddTypes : CallAddNode(t)
    \/ /\ Len(connections) < MaxConns
       /\ \E s \in IdInputs, d \in IdInputs, w \in AddWeights :
              CallAddConnection(NodeConnection(s, d, w))
    \/ CallPrepare
    \/ \E id \in IdInputs, e \in BOOLEAN : CallSetEnabled(id, e)
    \/ \E id \in IdInputs : CallRemoveNodeObserved(id)

SpecRemove == Init /\ [][NextRemove]_vars

RemoveRun == run.valid /\ run.kind = "remove"

Touches(c, id) == c.sourceNodeId = id \/ c.destNodeId = id

\* C27: removeNode(id) takes away node id, its scratch buffer and the
\* connections that have id at either end, and nothing else: the other
\* nodes keep their enabled flags, the other connections their order; for
\* an id the graph does not hold, the nodes and the connections stay as
\* they were.
C27_RemoveNodeIsExact ==
    RemoveRun =>
        LET was == run.before
            Survives(c) == ~Touches(c, run.id)
        IN /\ DOMAIN nodes = DOMAIN was.nodes \ {run.id}
           /\ \A k \in DOMAIN nodes : nodes[k] = was.nodes[k]
           /\ nodeBuffers = was.nodeBuffers \ {run.id}
           /\ connections = SelectSeq(was.connections, Survives)
           /\ run.id \notin DOMAIN was.nodes =>
                  (nodes = was.nodes /\ connections = was.connections)

---------------------------------------------------------------------------
(* ModulationMatrix::process on routes whose sourceIndex is any int *)

\* The routes process does not skip at part_000:242 although the source
\* vector has no element of their index.
ReadsOutside(rts) == { i \in DOMAIN rts : rts[i].sourceIndex < 0 }

\* process(): sources[route.sourceIndex] with a negative index is a read
\* before the vector, after which the call is undefined.
CallModProcessAnyIndex(numSamples) ==
    IF ReadsOutside(routes) # {}

    THEN /\ fault' = "out_of_range"
         /\ run' = NoRun
         /\ UNCHANGED <<restVars, graphVars, solo, paramOff, controlVars>>
    ELSE CallModProcess(numSamples)

AnyIndexRouteInputs ==
    { ModRoute(s, id, FloatOne) : s \in -1 .. MaxSources, id \in DestIDs }

NextModIndex ==
    \/ /\ Alive
       /\ Len(sources) < MaxSources
       /\ \E s \in SourceInputs : CallAddSource(s)
    \/ /\ Alive
       /\ Len(routes) < MaxRoutes
       /\ \E r \in AnyIndexRouteInputs : CallAddRoute(r)
    \/ Alive /\ (sources # <<>> \/ routes # <<>>) /\ CallClearAll
    \/ Alive /\ \E n \in BlockLengths : CallModProcessAnyIndex(n)

SpecModIndex == Init /\ [][NextModIndex]_vars

InvalidRoutes ==
    { i \in DOMAIN routes :
          routes[i].sourceIndex < 0 \/ routes[i].sourceIndex >= Len(sources) }

\* C28: process skips a route whose sourceIndex is negative or not below
\* sources.size(): no source is read for it, and every parameter is what
\* the call would have left without the route.
C28_InvalidRoutesSkipped ==
    /\ fault # "out_of_range"
    /\ ModRun =>
           \A i \in InvalidRoutes :
               apvts = applyRoutes(run.before.apvts, sources,
                                   Without(routes, i), 1)

---------------------------------------------------------------------------
(* The ids addNode hands out while nodes come and go *)

MaxIssued == 3       \* addNode calls after construction

\* The id addNode returned: the key the call added to the node map.
ReturnedId(g, after) == CHOOSE id \in DOMAIN after.nodes : id \notin DOMAIN g.nodes

CallAddNodeObserved(type) ==
    LET after == addNode(CurrentGraph, type)
    IN /\ nextNodeId < FirstNewId + MaxIssued
       /\ Becomes(after)
       /\ issued' = Append(issued, [id |-> ReturnedId(CurrentGraph, after),
                                    type |-> type])
       /\ run' = [valid |-> TRUE, kind |-> "add"]
       /\ UNCHANGED <<threadVars, saved, slotMeta, capture, mutation, delay,
                      chorus, reverb, targetGraph, presetVars, solo, paramOff,
                      fault, controlVars>>

IssueTypes == {"mutation_engine", "freeze_capture"}
IssueIds == 0 .. (FirstNewId + MaxIssued)

NextIds ==
    \/ \E t \in IssueTypes : CallAddNodeObserved(t)
    \/ \E id \in IssueIds : CallRemoveNode(id)
    \/ /\ Len(connections) < MaxConns
       /\ \E s \in {0, FirstNewId}, d \in {1, FirstNewId + 1} :
              CallAddConnection(NodeConnection(s, d, 1))

SpecIds == Init /\ [][NextIds]_vars

\* C29: the ids addNode has returned start at 0 and grow strictly, so no id
\* is returned twice, also not the id of a node that was removed since; a
\* live node is the node that was added under its id.
C29_IdsAreNeverReused ==
    /\ issued[1].id = 0
    /\ \A j \in DOMAIN issued, k \in DOMAIN issued :
           j < k => issued[j].id < issued[k].id
    /\ \A id \in DOMAIN nodes :
           \E k \in DOMAIN issued :
               issued[k].id = id /\ issued[k].type = nodes[id].type

\* An addNode after the removal of a node that was itself added after
\* construction, with a connection still naming a removed id.
C29_Witness ==
    /\ run.valid /\ run.kind = "add"
    /\ Len(issued) >= Len(DefaultTypes) + 2
    /\ issued[Len(issued) - 1].id \notin DOMAIN nodes
    /\ issued[Len(issued)].id \in DOMAIN nodes
    /\ \E i \in DOMAIN connections :
           connections[i].sourceNodeId = issued[Len(issued) - 1].id

---------------------------------------------------------------------------
(* PresetManager under loading, browsing, saving and importing *)

MaxUserPresets == 2     \* presets appended to the factory list

presetFrame ==
    UNCHANGED <<graphVars, solo, paramOff, fault, lastMacroValue, slots,
                sources, routes, threadVars, saved, slotMeta, capture,
                mutation, delay, chorus, reverb, targetGraph, issued>>

\* What the last PresetManager call was given and found, and which call came
\* before it.
PresetRun(kind, index, ok) ==
    [valid |-> TRUE, kind |-> kind, index |-> index, ok |-> ok,
     before |-> presetManager, stateBefore |-> apvts,
     prevKind |-> IF run.valid THEN run.kind ELSE "none",
     prevIndex |-> IF run.valid THEN run.before.currentIndex
                   ELSE presetManager.currentIndex]

CallLoadPreset(index) ==
    LET r == loadPreset(presetManager, apvts, index)
    IN /\ presetManager' = r.pm
       /\ apvts' = r.state
       /\ run' = PresetRun("load", index, TRUE)
       /\ UNCHANGED userPresetsDir
       /\ presetFrame

CallLoadNextPreset ==
    LET r == loadNextPreset(presetManager, apvts)
    IN /\ presetManager' = r.pm
       /\ apvts' = r.state
       /\ run' = PresetRun("next", 0, TRUE)
       /\ UNCHANGED userPresetsDir
       /\ presetFrame

CallLoadPrevPreset ==
    LET r == loadPrevPreset(presetManager, apvts)
    IN /\ presetManager' = r.pm
       /\ apvts' = r.state
       /\ run' = PresetRun("prev", 0, TRUE)
       /\ UNCHANGED userPresetsDir
       /\ presetFrame

CallSaveCurrentAsUser(name, tags) ==
    LET r == saveCurrentAsUser(presetManager, userPresetsDir, apvts, name, tags)
    IN /\ getNumPresets(presetManager) < NUM_FACTORY_PRESETS + MaxUserPresets
       /\ presetManager' = r.pm
       /\ userPresetsDir' = r.dir
       /\ run' = PresetRun("save", 0, TRUE)
       /\ UNCHANGED apvts
       /\ presetFrame

CallImportPreset(file) ==
    LET r == importPreset(presetManager, file)
    IN /\ getNumPresets(r.pm) <= NUM_FACTORY_PRESETS + MaxUserPresets
       /\ presetManager' = r.pm
       /\ run' = PresetRun("import", 0, r.ok)
       /\ UNCHANGED <<apvts, userPresetsDir>>
       /\ presetFrame

\* The orders in which findChildFiles may yield the files of the directory.
DirListings(dir) ==
    { [i \in DOMAIN order |-> dir[order[i]]] :
        order \in { o \in [1 .. Cardinality(DOMAIN dir) -> DOMAIN dir] :
                      \A i, j \in DOMAIN o : o[i] = o[j] => i = j } }

\* The plugin is instantiated again: a new parameter store and a new
\* PresetManager over the directory the earlier instance left.
PluginReloaded(files) ==
    /\ presetManager' = NewPresetManager(createParameterLayout, files)
    /\ apvts' = createParameterLayout
    /\ Forget
    /\ UNCHANGED userPresetsDir
    /\ presetFrame

\* A *.snot file in the directory that holds no JSON object.
UserDropsFile(name) ==
    /\ name \notin DOMAIN userPresetsDir
    /\ userPresetsDir' = MapPut(userPresetsDir, name, [isObject |-> FALSE])
    /\ Forget
    /\ UNCHANGED <<presetManager, apvts>>
    /\ presetFrame

UserPresetNames == {"Mine"}
LoadIndices == (0 - 1) .. (NUM_FACTORY_PRESETS + MaxUserPresets)
SharedPreset ==
    presetToJson([SnotPreset(createParameterLayout)
                      EXCEPT !.name = "Theirs", !.author = "Friend",
                             !.bpm = 90])
ImportFiles ==
    { [exists |-> FALSE, extension |-> ".snot", json |-> SharedPreset],
      [exists |-> TRUE, extension |-> ".txt", json |-> SharedPreset],
      [exists |-> TRUE, extension |-> ".snot", json |-> [isObject |-> FALSE]],
      [exists |-> TRUE, extension |-> ".snot", json |-> SharedPreset] }

NextPresets ==
    \/ \E i \in LoadIndices : CallLoadPreset(i)
    \/ CallLoadNextPreset
    \/ CallLoadPrevPreset
    \/ \E n \in UserPresetNames : CallSaveCurrentAsUser(n, 1)
    \/ \E f \in ImportFiles : CallImportPreset(f)
    \/ \E files \in DirListings(userPresetsDir) : PluginReloaded(files)
    \/ UserDropsFile("Broken")
    \/ HostSetsParameter("mix", 0)

SpecPresets == Init /\ [][NextPresets]_vars

\* C30: currentIndex is an index of allPresets; loadNextPreset and
\* loadPrevPreset step by one with wrap-around at the ends and each undoes the
\* other; loadPreset of an index outside the list changes nothing; an
\* importPreset that returned false left the list as it was.
C30_CurrentIndexStaysValid ==
    LET n == getNumPresets(presetManager)
        cur == presetManager.currentIndex
    IN /\ 0 <= cur /\ cur < n
       /\ run.valid =>
            /\ run.kind = "next" =>
                 /\ cur = IF run.before.currentIndex = n - 1 THEN 0
                          ELSE run.before.currentIndex + 1
                 /\ presetManager.allPresets = run.before.allPresets
                 /\ run.prevKind = "prev" => cur = run.prevIndex
            /\ run.kind = "prev" =>
                 /\ cur = IF run.before.currentIndex = 0 THEN n - 1
                          ELSE run.before.currentIndex - 1
                 /\ presetManager.allPresets = run.before.allPresets
                 /\ run.prevKind = "next" => cur = run.prevIndex
            /\ (run.kind = "load" /\ (run.index < 0 \/ run.index >= n)) =>
                 /\ presetManager = run.before
                 /\ apvts = run.stateBefore
            /\ (run.kind = "import" /\ ~run.ok) =>
                 presetManager.allPresets = run.before.allPresets

\* loadPrevPreset right after a loadNextPreset that wrapped from the last
\* preset to the first, in a list that has grown beyond the factory presets.
C30_Witness ==
    /\ run.valid /\ run.kind = "prev" /\ run.prevKind = "next"
    /\ getNumPresets(presetManager) > NUM_FACTORY_PRESETS
    /\ run.prevIndex = getNumPresets(presetManager) - 1
    /\ run.before.currentIndex = 0
    /\ presetManager.currentIndex = run.prevIndex

===========================================================================
